---- MODULE Spec2Model ----
(***************************************************************************)
(* Model of the GPTQ trainer of model_compression_toolkit 1.8.0:           *)
(*   gptq/common/gptq_training.py   (GPTQTrainer, gptq_training)           *)
(*   gptq/keras/gptq_training.py    (KerasGPTQTrainer)                     *)
(*   gptq/pytorch/gptq_training.py  (PytorchGPTQTrainer)                   *)
(*   gptq/keras/quantizer/ste_rounding/symmetric_ste.py                    *)
(***************************************************************************)
EXTENDS Integers, Sequences, FiniteSets, TLC

(***************************************************************************)
(* Bounds of the model.                                                    *)
(***************************************************************************)
\* longest parameter list handed to get_optimizer_with_param
MaxParams == 2
\* most wrapped nodes of the quantized graph, and most compare points
MaxLayers == 2
\* largest n_epochs
MaxEpochs == 2
\* most batches one call of the representative data generator yields
MaxBatches == 2
\* elements (output channels) of a kernel
KernelSize == 2
\* most compare points when the loss weights are uniform
MaxPoints == 6
\* most compare points, and most image samples, when the loss weights are
\* jacobian based
MaxJacPoints == 3
MaxImages == 2

\* Python's None
None == "None"

VARIABLES
    \* ---- optimizer grouping (get_optimizer_with_param called on its own)
    optCfg,      \* the gptq_config fields the method reads
    optIn,       \* the three input lists
    optOut,      \* the outcome of the call (Pending before it)
    \* ---- loss weights (compute_jacobian_based_weights called on its own)
    jacCfg,      \* the gptq_config fields the method reads
    jacPoints,   \* self.compare_points
    jacSizes,    \* the sizes of the batches representative_data_gen() yields
    jacGraph,    \* the float graph: its outputs and their predecessors
    jacScores,   \* per call of model_grad, the score it returns for each point
    jacOut,      \* the outcome of the call (Pending before it)
    jacCalls,    \* counts of the calls the method made
    \* ---- one run of gptq_training(graph_float, graph_quant, gptq_config, ...)
    fw,                        \* "keras" or "pytorch": the trainer class used
    gptq_config,               \* the GradientPTQConfig of the run
    compare_points,            \* the compare points selected from the float graph
    graph_quant,               \* the trainer's quantized graph: its wrapped nodes
    batches_per_call,          \* batches one call of representative_data_gen yields
    user_info,                 \* input_scale of the float and of the GPTQ model
    pc,                        \* position of the run
    failure,                   \* where the run raised ("none" while it has not)
    fxp_model,                 \* the student model: its wrapped layers
    optimizer_with_param,      \* trainer attribute (Pending while unset)
    has_params_to_train,       \* Keras trainer attribute ("unset" while unset)
    weights_for_average_loss,  \* trainer attribute (Pending while unset)
    loss_list,                 \* trainer attribute: the loss history
    epoch,                     \* epochs started by micro_training_loop
    batch,                     \* batches pulled in the current epoch
    group_index,               \* next optimizer group to step in this batch
    grads,                     \* the gradient of the current step (0: none)
    calls,                     \* counts of the observable operations
    returned,                  \* what gptq_training returned (Pending before)
    ids,                       \* the node objects of each graph, by identity
    written,                   \* the node objects some operation has modified
    append2output,             \* the compare points each model was built with
    num_batches,               \* argument of set_num_batches (None: not called)
    loss_weights_seen,         \* the weight vectors handed to gptq_config.loss
    \* ---- helper methods called on their own
    helperOp,    \* the method called
    helperIn,    \* its input
    helperOut    \* the outcome of the call (Pending before it)

optVars == <<optCfg, optIn, optOut>>
jacVars == <<jacCfg, jacPoints, jacSizes, jacGraph, jacScores, jacOut, jacCalls>>
inputVars == <<fw, gptq_config, compare_points, graph_quant, batches_per_call,
              user_info>>
trainerVars == <<fxp_model, optimizer_with_param, has_params_to_train,
                 weights_for_average_loss, loss_list>>
loopVars == <<epoch, batch, group_index, grads>>
objectVars == <<ids, written>>
buildVars == <<append2output, num_batches, loss_weights_seen>>
runVars == <<inputVars, pc, failure, trainerVars, loopVars, calls, returned,
             objectVars, buildVars>>
helperVars == <<helperOp, helperIn, helperOut>>
vars == <<optVars, jacVars, helperVars, runVars>>

(***************************************************************************)
(* Logger.error (core/common/logger.py) logs at error severity and raises  *)
(* an Exception: the call never returns to its caller.                     *)
(***************************************************************************)
LoggerErrorRaises == TRUE

\* outcome of a call: not made yet, raised, or returned v
Pending == [state |-> "pending", value |-> << >>]
Raised == [state |-> "raised", value |-> << >>]
Returned(v) == [state |-> "returned", value |-> v]

(***************************************************************************)
(* GPTQTrainer.get_optimizer_with_param                                    *)
(***************************************************************************)
\* the list [<<kind, 1>>, ..., <<kind, n>>] of distinct parameter tensors
ParamList(kind, n) == [i \in 1..n |-> <<kind, i>>]

\* one (optimizer, parameter list) tuple of optimizer_with_param
Group(o, p) == [optimizer |-> o, params |-> p]

\* lines 94-96: the dedicated bias group, appended when optimizer_bias is set
BiasGroup(c, flattened_bias_weights) ==
    IF c.train_bias /\ c.optimizer_bias # None
    THEN << Group(c.optimizer_bias, flattened_bias_weights) >> ELSE << >>

\* lines 97-98: the bias parameters that fall into w2train_res
\* (mutant: the bias parameters are added to w2train_res although a dedicated
\* group holds them)
BiasRest_duplicating(c, flattened_bias_weights) ==
    IF c.train_bias THEN flattened_bias_weights ELSE << >>
BiasRest(c, flattened_bias_weights) ==
    IF c.train_bias /\ c.optimizer_bias = None
    THEN flattened_bias_weights ELSE << >>

\* lines 102-105: the dedicated quantization-parameter group
\* (mutant: the dedicated group is bound to optimizer_rest)
QuantGroup_wrong_optimizer(c, trainable_quantization_parameters) ==
    IF c.quantization_parameters_learning /\ c.optimizer_quantization_parameter # None
    THEN << Group(c.optimizer_rest, trainable_quantization_parameters) >>
    ELSE << >>
QuantGroup(c, trainable_quantization_parameters) ==
    IF c.quantization_parameters_learning /\ c.optimizer_quantization_parameter # None
    THEN << Group(c.optimizer_quantization_parameter,
                  trainable_quantization_parameters) >>
    ELSE << >>

\* lines 106-107: the quantization parameters that fall into w2train_res
QuantRest(c, trainable_quantization_parameters) ==
    IF c.quantization_parameters_learning /\ c.optimizer_quantization_parameter = None
    THEN trainable_quantization_parameters ELSE << >>

\* lines 99-101 and 108-110: the two places that call Logger.error.  The
\* first is inside the else of line 97; the second is at the level of the
\* if of line 103, so it does not depend on optimizer_quantization_parameter.
\* (mutant: the check of line 108 is dropped)
MissingRestError_bias_only(c) ==
    c.optimizer_rest = None /\ c.train_bias /\ c.optimizer_bias = None
MissingRestError(c) ==
    \/ c.train_bias /\ c.optimizer_bias = None /\ c.optimizer_rest = None
    \/ c.quantization_parameters_learning /\ c.optimizer_rest = None

get_optimizer_with_param(c, flattened_trainable_weights, flattened_bias_weights, trainable_quantization_parameters) ==
    LET w2train == flattened_trainable_weights
        first == << Group(c.optimizer, w2train) >>
    IN  IF ~(c.train_bias \/ c.quantization_parameters_learning)
        THEN Returned(first)
        ELSE
        LET w2train_res == BiasRest(c, flattened_bias_weights)
                           \o QuantRest(c, trainable_quantization_parameters)
        IN  IF MissingRestError(c) /\ LoggerErrorRaises
            THEN Raised
            ELSE Returned(first
                          \o BiasGroup(c, flattened_bias_weights)
                          \o QuantGroup(c, trainable_quantization_parameters)
                          \o << Group(c.optimizer_rest, w2train_res) >>)

(***************************************************************************)
(* The STE rounding quantizer (symmetric_ste.py).  Tensors are sequences   *)
(* of integers; a threshold t and a bit width b give the step              *)
(* delta = t / 2^(b - signed), kept as the exact fraction t / P.           *)
(***************************************************************************)
RECURSIVE Pow2(_)
Pow2(n) == IF n <= 0 THEN 1 ELSE 2 * Pow2(n - 1)

\* tf.round of the fraction n / d (d > 0): to nearest, halves to even
RoundDiv(n, d) ==
    LET q == n \div d
        r == n % d
    IN  IF 2 * r < d THEN q
        ELSE IF 2 * r > d THEN q + 1
        ELSE IF q % 2 = 0 THEN q ELSE q + 1

Clip(x, lo, hi) == IF x < lo THEN lo ELSE IF x > hi THEN hi ELSE x

RECURSIVE CeilPow2From(_, _)
CeilPow2From(t, p) == IF p >= t THEN p ELSE CeilPow2From(t, 2 * p)
\* qutils.power_of_two_max: the threshold snapped to a power of two (a
\* threshold that is a power of two is left as it is)
power_of_two_max(max_tensor) == CeilPow2From(max_tensor, 1)

\* line 64-65: the representable integer codes
min_int_symmetric(num_bits, signed) ==
    -(IF signed THEN 1 ELSE 0) * (Pow2(num_bits - (IF signed THEN 1 ELSE 0)) - 1)
min_int(num_bits, signed) ==
    -(IF signed THEN 1 ELSE 0) * Pow2(num_bits - (IF signed THEN 1 ELSE 0))
max_int_of_unsigned(num_bits, signed) == Pow2(num_bits) - 1
max_int(num_bits, signed) ==
    Pow2(num_bits - (IF signed THEN 1 ELSE 0)) - 1

\* lines 58-66 up to the final rescale: the integer code of one element x with
\* auxiliary value a under threshold t
QuantCode(x, a, t, num_bits, signed, power_of_two, max_lsbs_change) ==
    LET max_tensor == IF power_of_two THEN power_of_two_max(t) ELSE t
        \* delta = max_tensor / P
        P == Pow2(num_bits - (IF signed THEN 1 ELSE 0))
        \* tf.round(input_tensor / delta)
        input_tensor_int == RoundDiv(x * P, max_tensor)
        \* ste_clip(auxvar, max_val = max_lsbs_change * delta) / delta, as the
        \* fraction clippedP / max_tensor
        clippedP == Clip(a * P, -(max_lsbs_change * max_tensor),
                         max_lsbs_change * max_tensor)
        \* ste_round(input_tensor_int + clipped / delta)
        tensor_q == RoundDiv(input_tensor_int * max_tensor + clippedP, max_tensor)
    IN  Clip(tensor_q, min_int(num_bits, signed), max_int(num_bits, signed))

\* the returned value delta * code of one element, as the fraction num / den
pertubation_symmetric_quantizer(x, a, t, num_bits, signed, power_of_two, max_lsbs_change) ==
    LET max_tensor == IF power_of_two THEN power_of_two_max(t) ELSE t
    IN  [num |-> max_tensor * QuantCode(x, a, t, num_bits, signed, power_of_two,
                                        max_lsbs_change),
         den |-> Pow2(num_bits - (IF signed THEN 1 ELSE 0))]

(***************************************************************************)
(* STEWeightGPTQQuantizer                                                  *)
(***************************************************************************)
\* a tensor: its shape and its elements in row-major order
Tensor(shape, data) == [shape |-> shape, data |-> data]

\* DefaultDict({}, lambda: 1): the default max_lsbs_change_map (line 79)
max_lsbs_change_map(num_bits) == 1

\* __init__, lines 87-99.  A per-channel threshold is kept flattened
\* (np.reshape(..., [-1])) and its configured shape is remembered.
STEWeightGPTQQuantizer(quantization_config) ==
    LET threshold_values == quantization_config.threshold
        per_channel == quantization_config.weights_per_channel_threshold
    IN  [num_bits |-> quantization_config.weights_n_bits,
         per_channel |-> per_channel,
         threshold_shape |-> threshold_values.shape,
         threshold_values |->
             IF per_channel
             THEN Tensor(<<Len(threshold_values.data)>>, threshold_values.data)
             ELSE Tensor(<< >>, <<threshold_values.data[1]>>),
         power_of_two |-> quantization_config.power_of_two,
         max_lsbs_change |-> max_lsbs_change_map(quantization_config.weights_n_bits)]

\* initialize_quantization, lines 117-141: the variables added to the layer
initialize_quantization(q, w) ==
    [ptq_threshold |-> q.threshold_values,
     auxvar |-> [j \in DOMAIN w |-> 0],
     gptq_iter |-> 0]

\* __call__, lines 157-179: only the per-channel branch passes max_lsbs_change
STE_call(q, quantizer_parameters, inputs) ==
    [j \in DOMAIN inputs |->
        pertubation_symmetric_quantizer(
            inputs[j],
            quantizer_parameters.auxvar[j],
            IF q.per_channel THEN quantizer_parameters.ptq_threshold.data[j]
                             ELSE quantizer_parameters.ptq_threshold.data[1],
            q.num_bits, TRUE, q.power_of_two,
            IF q.per_channel THEN q.max_lsbs_change ELSE 1)]

\* get_quant_config, lines 210-211
get_quant_config_flattened(q, quantizer_parameters) ==
    quantizer_parameters.ptq_threshold
get_quant_config(q, quantizer_parameters) ==
    Tensor(q.threshold_shape, quantizer_parameters.ptq_threshold.data)

(***************************************************************************)
(* The graphs and the models built from them.  A graph is the sequence of  *)
(* its nodes with weights quantization enabled; a node's name is its       *)
(* position.                                                               *)
(***************************************************************************)
\* a Dense-like node: bias, per-tensor power-of-two threshold 4, 3 bits
DenseNode ==
    [type |-> "Dense",
     kernel |-> [j \in 1..KernelSize |-> 5 * j - 7],
     has_bias |-> TRUE,
     bias |-> 0,
     weights |-> [j \in 1..KernelSize |-> [num |-> 5 * j - 7, den |-> 1]],
     final_weights_quantization_cfg |->
         [weights_n_bits |-> 3,
          weights_per_channel_threshold |-> FALSE,
          threshold |-> Tensor(<< >>, <<4>>),
          power_of_two |-> TRUE]]

\* a Conv-like node: no bias, per-channel symmetric thresholds, 2 bits
ConvNode ==
    [type |-> "Conv2D",
     kernel |-> [j \in 1..KernelSize |-> 2 * j - 5],
     has_bias |-> FALSE,
     bias |-> 0,
     weights |-> [j \in 1..KernelSize |-> [num |-> 2 * j - 5, den |-> 1]],
     final_weights_quantization_cfg |->
         [weights_n_bits |-> 2,
          weights_per_channel_threshold |-> TRUE,
          threshold |-> Tensor(<<1, KernelSize>>, [j \in 1..KernelSize |-> 2 * j]),
          power_of_two |-> FALSE]]

NodeKinds == {DenseNode, ConvNode}

\* the graphs of at most n nodes
Graphs(n) == UNION {[1..k -> NodeKinds] : k \in 0..n}

RoundingTypes == {"STE", "SoftQuantizer"}

\* quantization_builder(n, gptq_config): the weights quantizer of the class
\* the rounding type selects.  The soft rounding quantizer is given the
\* variables and the rounding of the STE quantizer; it differs in its class,
\* which defines get_regularization.
quantization_builder(n, c) ==
    [class |-> IF c.rounding_type = "SoftQuantizer"
               THEN "SymmetricSoftRoundingGPTQ" ELSE "STEWeightGPTQQuantizer"]
    @@ STEWeightGPTQQuantizer(n.final_weights_quantization_cfg)

\* gptq_wrapper: the node's layer wrapped with its weights quantizer
gptq_wrapper(n, c) ==
    LET q == quantization_builder(n, c)
    IN  [kernel |-> n.kernel,
         has_bias |-> n.has_bias,
         bias |-> n.bias,
         quantizer |-> q,
         quantizer_parameters |-> initialize_quantization(q, n.kernel)]

\* build_gptq_model: every node of the graph is wrapped
build_gptq_model(graph, c) == [i \in DOMAIN graph |-> gptq_wrapper(graph[i], c)]

\* get_soft_rounding_reg (pytorch/graph_info.py lines 84-101):
\* get_regularization() of every wrapped layer's weights quantizer, which
\* STEWeightGPTQQuantizer does not define (AttributeError)
get_soft_rounding_reg(model) ==
    IF \E i \in DOMAIN model : model[i].quantizer.class # "SymmetricSoftRoundingGPTQ"
    THEN Raised
    ELSE Returned([i \in DOMAIN model |-> <<"regularization", i>>])

\* _get_quantizer_regularization_values (Keras lines 333-336, PyTorch lines
\* 286-289)
get_quantizer_regularization_values(rounding_type, model) ==
    IF rounding_type = "SoftQuantizer" THEN get_soft_rounding_reg(model)
    ELSE Returned(<< >>)

\* get_gptq_trainable_parameters: one auxiliary variable per wrapped layer
\* (get_aux_variable, symmetric_ste.py line 189)
trainable_weights(model) == [i \in DOMAIN model |-> <<"auxvar", i>>]
\* one threshold per wrapped layer (get_quantization_variable, line 199)
trainable_threshold(model) == [i \in DOMAIN model |-> <<"threshold", i>>]
\* the biases of the layers that have one, when add_bias
RECURSIVE BiasesFrom(_, _)
BiasesFrom(model, i) ==
    IF i > Len(model) THEN << >>
    ELSE (IF model[i].has_bias THEN << <<"bias", i>> >> ELSE << >>)
         \o BiasesFrom(model, i + 1)
bias_weights(model, add_bias) == IF add_bias THEN BiasesFrom(model, 1) ELSE << >>

\* get_weights_for_loss: one float and one quantized kernel per wrapped layer
flp_weights_list(model) == [i \in DOMAIN model |-> model[i].kernel]
fxp_weights_list(model) ==
    [i \in DOMAIN model |->
        STE_call(model[i].quantizer, model[i].quantizer_parameters, model[i].kernel)]

\* the check of lines 95-96 (Keras) and 79-80 (PyTorch): a chained comparison
\* (mutant: the compare points are left out of the comparison)
CountsMatch_without_points(points, model) ==
    /\ Len(trainable_weights(model)) = Len(flp_weights_list(model))
    /\ Len(flp_weights_list(model)) = Len(fxp_weights_list(model))
CountsMatch(points, model) ==
    /\ Len(points) = Len(trainable_weights(model))
    /\ Len(trainable_weights(model)) = Len(flp_weights_list(model))
    /\ Len(flp_weights_list(model)) = Len(fxp_weights_list(model))

\* lines 107-108 (Keras): np.sum of the groups' lengths > 0
RECURSIVE SumLens(_)
SumLens(groups) ==
    IF groups = << >> THEN 0 ELSE Len(Head(groups).params) + SumLens(Tail(groups))
HasParamsToTrain(groups) == IF SumLens(groups) > 0 THEN "True" ELSE "False"

(***************************************************************************)
(* Python floats (IEEE 754 binary64) for the uniform loss weights.  A      *)
(* positive float is [e, m]: m is its 53-bit significand, most significant *)
(* bit (always 1) first, and its value is m[1].m[2]...m[53] * 2^e.         *)
(***************************************************************************)
\* bits of the significand of a Python float
Precision == 53

Zeros(k) == [i \in 1..k |-> 0]

\* the bits s plus one: <<carry out, bits>>; a bit flips iff every bit
\* after it is 1
Incremented(s) ==
    <<IF \A i \in DOMAIN s : s[i] = 1 THEN 1 ELSE 0,
      [k \in DOMAIN s |->
          IF \A i \in (k + 1)..Len(s) : s[i] = 1 THEN 1 - s[k] ELSE s[k]]>>

\* bits (the first one is 1) of a positive value bits * 2^(e - Len(bits) + 1),
\* rounded to the nearest float, halves to even
RoundToFloat(bits, e) ==
    IF Len(bits) <= Precision
    THEN [e |-> e, m |-> bits \o Zeros(Precision - Len(bits))]
    ELSE LET kept == SubSeq(bits, 1, Precision)
             guard == bits[Precision + 1]
             sticky == \E i \in (Precision + 2)..Len(bits) : bits[i] = 1
             up == guard = 1 /\ (sticky \/ kept[Precision] = 1)
             r == Incremented(kept)
         IN  IF ~up THEN [e |-> e, m |-> kept]
             ELSE IF r[1] = 1 THEN [e |-> e + 1, m |-> <<1>> \o Zeros(Precision - 1)]
             ELSE [e |-> e, m |-> r[2]]

\* 2^e mod n, by repeated squaring
RECURSIVE PowMod2(_, _)
PowMod2(e, n) ==
    IF e = 0 THEN 1 % n
    ELSE LET h == PowMod2(e \div 2, n)
         IN  IF e % 2 = 0 THEN (h * h) % n ELSE (2 * h * h) % n

\* the first k + 1 bits of the binary expansion of 2^k0 / n, a value in
\* [1, 2), and a last bit that is 1 iff what is left is not zero
QuotientBits(k0, n, k) ==
    [i \in 1..(k + 2) |->
        IF i = 1 THEN 1
        ELSE IF i = k + 2 THEN (IF PowMod2(k0 + k, n) > 0 THEN 1 ELSE 0)
        ELSE IF 2 * PowMod2(k0 + i - 2, n) >= n THEN 1 ELSE 0]

RECURSIVE CeilLog2From(_, _, _)
CeilLog2From(n, p, k) == IF p >= n THEN k ELSE CeilLog2From(n, 2 * p, k + 1)

\* the Python expression 1 / n for an int n >= 1
FloatOneOver(n) ==
    LET k == CeilLog2From(n, 1, 0)
        \* 2^k / n is in [1, 2): its leading bit has weight 2^(-k)
    IN  RoundToFloat(QuotientBits(k, n, Precision), -k)

\* the carry into bit k of a + b: some later bit generates a carry that
\* every bit in between propagates
CarryInto(a, b, k) ==
    \E j \in (k + 1)..Len(a) :
        a[j] + b[j] = 2 /\ \A i \in (k + 1)..(j - 1) : a[i] + b[i] = 1

\* a + b for bit sequences of one length, with the carry out in front
BitsAdd(a, b) ==
    (IF CarryInto(a, b, 0) THEN <<1>> ELSE << >>)
    \o [k \in DOMAIN a |->
           (a[k] + b[k] + (IF CarryInto(a, b, k) THEN 1 ELSE 0)) % 2]

\* x + y for positive floats
FloatAdd(x, y) ==
    LET hi == IF x.e >= y.e THEN x ELSE y
        lo == IF x.e >= y.e THEN y ELSE x
        d == hi.e - lo.e
        hi_bits == hi.m \o Zeros(d)
        lo_bits == Zeros(d) \o lo.m
        total == BitsAdd(hi_bits, lo_bits)
    IN  RoundToFloat(total, hi.e + (Len(total) - Len(hi_bits)))

\* sum(w) accumulated from the left, as Python's sum and np.sum (of fewer
\* than 8 elements) do; w is not empty
RECURSIVE FloatSum(_)
FloatSum(w) ==
    IF Len(w) = 1 THEN w[1]
    ELSE FloatAdd(FloatSum(SubSeq(w, 1, Len(w) - 1)), w[Len(w)])

FloatOne == [e |-> 0, m |-> <<1>> \o Zeros(Precision - 1)]

(***************************************************************************)
(* GPTQTrainer._generate_images_batch (lines 164-197) and                  *)
(* GPTQTrainer._get_model_output_replacement (lines 231-250)               *)
(***************************************************************************)
\* a while loop that never exits: the call neither returns nor raises
Diverges == [state |-> "diverges", value |-> << >>]

RECURSIVE Concatenate(_)
\* np.concatenate(images, axis=0): ValueError on an empty list of arrays
Concatenate(images) ==
    IF images = << >> THEN << >> ELSE Head(images) \o Concatenate(Tail(images))

\* the images of batch b of a data source whose batches have the sizes `sizes`
BatchImages(sizes, b) == [j \in 1..sizes[b] |-> <<b, j>>]

\* lines 186-190: the images taken from a batch of num_images images when
\* `left` more are wanted
UsedImages_untruncated(num_images, left) == num_images
UsedImages(num_images, left) == IF num_images > left THEN left ELSE num_images

RECURSIVE ImagesLoop(_, _, _, _, _, _)
\* the for loop of _generate_images_batch, lines 180-192, from batch b on:
\* the images collected, their count, the count after each batch used,
\* whether the loop left by break, and whether the assertion of line 189
\* failed
ImagesLoop(sizes, b, samples_count, images, counts, num_samples_for_loss) ==
    IF b > Len(sizes)
    THEN [images |-> images, samples_count |-> samples_count, counts |-> counts,
          broke |-> FALSE, assertion_failed |-> FALSE]
    ELSE IF samples_count >= num_samples_for_loss
    THEN [images |-> images, samples_count |-> samples_count, counts |-> counts,
          broke |-> TRUE, assertion_failed |-> FALSE]
    ELSE LET left == num_samples_for_loss - samples_count
             num_images == UsedImages(sizes[b], left)
             \* x[:num_samples_for_loss - samples_count]
             truncated == SubSeq(BatchImages(sizes, b), 1, left)
             batch_input == IF sizes[b] > left THEN truncated
                            ELSE BatchImages(sizes, b)
         IN  IF sizes[b] > left /\ left # Len(truncated)
             THEN [images |-> images, samples_count |-> samples_count,
                   counts |-> counts, broke |-> FALSE, assertion_failed |-> TRUE]
             ELSE ImagesLoop(sizes, b + 1, samples_count + num_images,
                             Append(images, batch_input),
                             Append(counts, samples_count + num_images),
                             num_samples_for_loss)

\* _generate_images_batch, lines 164-197: the else branch of the loop warns
\* when the source ran out short of the quota; the return concatenates
generate_images_batch(sizes, num_samples_for_loss) ==
    LET loop == ImagesLoop(sizes, 1, 0, << >>, << >>, num_samples_for_loss)
    IN  [warnings |-> IF /\ ~loop.assertion_failed
                         /\ ~loop.broke
                         /\ loop.samples_count < num_samples_for_loss
                      THEN 1 ELSE 0,
         result |-> IF loop.assertion_failed \/ loop.images = << >> THEN Raised
                    ELSE Returned(Concatenate(loop.images)),
         counts |-> loop.counts,
         assertion_failed |-> loop.assertion_failed]

\* the graph of _get_model_output_replacement: nodes 1..MaxNodes, the direct
\* predecessors of each (get_prev_nodes), the verdict of
\* is_node_compatible_for_metric_outputs on each, and the outputs in order
PrevChoices(n) ==
    {<< >>} \cup {<<p>> : p \in 1..(n - 1)}
            \cup UNION {{<<p, q>> : q \in (p + 1)..(n - 1)} : p \in 1..(n - 1)}

OutputGraphs(nodes, outputs) ==
    {[prev |-> pv, compatible |-> cm, outputs |-> os] :
        pv \in {f \in [1..nodes -> UNION {PrevChoices(n) : n \in 1..nodes}] :
                   \A n \in 1..nodes : f[n] \in PrevChoices(n)},
        cm \in [1..nodes -> BOOLEAN],
        os \in UNION {[1..k -> 1..nodes] : k \in 1..outputs}}

\* a float graph of one node, its output, compatible for metric outputs
CompatibleOutput == [prev |-> << << >> >>, compatible |-> <<TRUE>>, outputs |-> <<1>>]

get_prev_nodes(g, n) == g.prev[n]
is_node_compatible_for_metric_outputs(g, n) == g.compatible[n]

\* lines 243-248, the while loop on one output n: every iteration takes the
\* predecessors of n itself, so a second iteration repeats the first
OutputReplacement(g, n) ==
    IF is_node_compatible_for_metric_outputs(g, n) THEN Returned(n)
    ELSE LET prev_node == get_prev_nodes(g, n)
         IN  IF Len(prev_node) # 1 THEN Raised
             ELSE IF is_node_compatible_for_metric_outputs(g, prev_node[1])
             THEN Returned(prev_node[1])
             ELSE Diverges

RECURSIVE ReplacementsFrom(_, _, _)
\* lines 241-250, the for loop over the outputs from output i on
ReplacementsFrom(g, i, replacement_outputs) ==
    IF i > Len(g.outputs) THEN Returned(replacement_outputs)
    ELSE LET r == OutputReplacement(g, g.outputs[i])
         IN  IF r.state = "returned"
             THEN ReplacementsFrom(g, i + 1, Append(replacement_outputs, r.value))
             ELSE r

get_model_output_replacement(g) ==
    [warnings |-> 0, result |-> ReplacementsFrom(g, 1, << >>)]

(***************************************************************************)
(* GPTQTrainer.compute_jacobian_based_weights (lines 127-162).             *)
(* image_scores[k][p] is the score model_grad returns for image k at       *)
(* compare point p, a non-negative integer.  A weight is one of            *)
(*   a float [e, m]                        (the uniform branch),           *)
(*   [kind |-> "mean", num, den]           the fraction num / den,         *)
(*   [kind |-> "log", num, den]            the number log10(num / den),    *)
(*   [kind |-> "-inf" | "+inf" | "nan"]    with num = den = 0.             *)
(***************************************************************************)
RECURSIVE SumScores(_, _, _)
SumScores(image_scores, p, k) ==
    IF k = 0 THEN 0 ELSE image_scores[k][p] + SumScores(image_scores, p, k - 1)

\* np.mean(points_apprx_jacobians_weights, axis=0)
MeanScores(points, image_scores) ==
    [p \in DOMAIN points |->
        [kind |-> "mean", num |-> SumScores(image_scores, p, Len(image_scores)),
         den |-> Len(image_scores)]]

\* the means have one denominator: their order is that of the numerators
RECURSIVE MinIndex(_, _)
\* an index in the non-empty set idx at which v is smallest
MinIndex(v, idx) ==
    LET i == CHOOSE j \in idx : TRUE
    IN  IF idx = {i} THEN i
        ELSE LET r == MinIndex(v, idx \ {i})
             IN  IF v[i].num <= v[r].num THEN i ELSE r

\* np.partition(v, 1)[1]: the element of rank 1 (from 0) in sorted order;
\* v has at least two elements
Partition1(v) ==
    v[MinIndex(v, DOMAIN v \ {MinIndex(v, DOMAIN v)})]

\* np.log10 of a non-negative fraction
Log10(x) ==
    IF x.num = 0 THEN [kind |-> "-inf", num |-> 0, den |-> 0]
    ELSE [kind |-> "log", num |-> x.num, den |-> x.den]

\* a <= b for two values of Log10
LogLeq(a, b) ==
    \/ a.kind = "-inf"
    \/ a.kind = "log" /\ b.kind = "log" /\ a.num * b.den <= b.num * a.den

\* np.min of a non-empty vector of values of Log10
LogMin(v) == v[CHOOSE i \in DOMAIN v : \A j \in DOMAIN v : LogLeq(v[i], v[j])]

\* a - b in float arithmetic, for values of Log10
LogMinus(a, b) ==
    IF a.kind = "log" /\ b.kind = "log"
    THEN [kind |-> "log", num |-> a.num * b.den, den |-> a.den * b.num]
    ELSE IF a.kind = "log" /\ b.kind = "-inf"
    THEN [kind |-> "+inf", num |-> 0, den |-> 0]
    ELSE IF a.kind = "-inf" /\ b.kind = "log"
    THEN [kind |-> "-inf", num |-> 0, den |-> 0]
    ELSE [kind |-> "nan", num |-> 0, den |-> 0]

\* lines 150-157: the log_norm branch; np.partition raises ValueError when
\* the vector has fewer than two elements
LogNormWeights(mean_jacobian_weights) ==
    IF Len(mean_jacobian_weights) < 2 THEN Raised
    ELSE LET second == Partition1(mean_jacobian_weights)
             replaced == [p \in DOMAIN mean_jacobian_weights |->
                             IF mean_jacobian_weights[p].num # 0
                             THEN mean_jacobian_weights[p] ELSE second]
             log_weights == [p \in DOMAIN replaced |-> Log10(replaced[p])]
         IN  Returned([p \in DOMAIN log_weights |->
                          LogMinus(log_weights[p], LogMin(log_weights))])

\* lines 161-162: [1 / num_nodes for _ in range(num_nodes)]
UniformWeights_off_by_one(points) ==
    [p \in DOMAIN points |-> FloatOneOver(Len(points) + 1)]
UniformWeights(points) ==
    [p \in DOMAIN points |-> FloatOneOver(Len(points))]

\* np.mean of an empty list of score vectors: the scalar nan
NaN == [kind |-> "nan", num |-> 0, den |-> 0]

\* lines 149-159 on the score vectors collected for the images: with no
\* image np.mean gives the scalar nan, on which np.partition raises
WeightsFromScores(c, points, points_apprx_jacobians_weights) ==
    IF points_apprx_jacobians_weights = << >>
    THEN IF c.log_norm THEN Raised ELSE Returned(NaN)
    ELSE IF c.log_norm
    THEN LogNormWeights(MeanScores(points, points_apprx_jacobians_weights))
    ELSE Returned(MeanScores(points, points_apprx_jacobians_weights))

\* compute_jacobian_based_weights, lines 127-162, on the compare points
\* `points`, a data source whose batches have the sizes `sizes`, the float
\* graph outputs g, and the score vectors model_grad returns: scores[k] at
\* its k-th call.  The outcome, and the calls of representative_data_gen()
\* and of fw_impl.model_grad made before it.
compute_jacobian_based_weights(c, points, sizes, g, scores) ==
    IF ~c.use_jac_based_weights
    THEN [result |-> Returned(UniformWeights(points)),
          data_gen |-> 0, model_grad |-> 0]
    ELSE LET images == generate_images_batch(sizes, c.num_samples_for_loss).result
             model_output_replacement == get_model_output_replacement(g).result
         IN  IF images.state # "returned"
             THEN [result |-> images, data_gen |-> 1, model_grad |-> 0]
             ELSE IF model_output_replacement.state # "returned"
             THEN [result |-> model_output_replacement,
                   data_gen |-> 1, model_grad |-> 0]
             ELSE [result |-> WeightsFromScores(
                                  c, points,
                                  [k \in DOMAIN images.value |-> scores[k]]),
                   data_gen |-> 1, model_grad |-> Len(images.value)]

(***************************************************************************)
(* GPTQTrainer.__init__ (common/gptq_training.py lines 32-73): the graphs  *)
(* are deep-copied, the compare points are selected, the float model is    *)
(* built, and the batches are counted when the rounding type asks for it.  *)
(* A graph is seen here as the sequence of its node objects, each an       *)
(* identity (a positive integer).                                          *)
(***************************************************************************)
\* copy.deepcopy(graph): node objects that did not exist before, as many as
\* the graph has; `used` is the largest identity in use
DeepCopy_aliasing(graph, used) == graph
DeepCopy(graph, used) == [i \in DOMAIN graph |-> used + i]

\* copy.copy(graph): a new graph object holding the same node objects
ShallowCopy(graph) == graph

RECURSIVE MaxOf(_)
MaxOf(seq) ==
    IF seq = << >> THEN 0
    ELSE LET m == MaxOf(Tail(seq)) IN IF Head(seq) > m THEN Head(seq) ELSE m

\* append2output=self.compare_points of the float model builder (lines 64-67)
\* and of the student model builder (Keras lines 161-165, PyTorch 131-135)
TeacherAppend2Output(points) == points
StudentAppend2Output_reversed(points) ==
    [i \in DOMAIN points |-> points[Len(points) + 1 - i]]
StudentAppend2Output(points) == points

\* lines 53-67
BaseInit ==
    /\ pc = "call"
    /\ LET used == MaxOf(ids.caller_float \o ids.caller_quant)
           float_copy == DeepCopy(ids.caller_float, used)
           quant_copy == DeepCopy(ids.caller_quant, MaxOf(<<used>> \o float_copy))
       IN  ids' = [ids EXCEPT !.graph_float = float_copy, !.graph_quant = quant_copy]
    /\ append2output' = [append2output EXCEPT
                            !.float_model = Returned(TeacherAppend2Output(compare_points))]
    /\ pc' = "copied"
    /\ UNCHANGED <<optVars, jacVars, helperVars, inputVars, failure, trainerVars,
                   loopVars, calls, returned, written, num_batches,
                   loss_weights_seen>>

\* lines 69-71 and count_num_batches_for_training, lines 252-265
NeedsBatchCount_always(c) == TRUE
NeedsBatchCount(c) == c.rounding_type = "SoftQuantizer"

\* the dry run: one pass over representative_data_gen() that counts
CountedBatches_one_short(n) == IF n > 0 THEN n - 1 ELSE 0
CountedBatches(n) == n

CountNumBatchesForTraining ==
    /\ pc = "copied"
    /\ IF NeedsBatchCount(gptq_config)
       THEN /\ num_batches' = CountedBatches(batches_per_call)
            /\ calls' = [calls EXCEPT !.dry_run_data_function = @ + 1,
                                      !.dry_run_batches = @ + batches_per_call,
                                      !.set_num_batches = @ + 1]
       ELSE UNCHANGED <<num_batches, calls>>
    /\ pc' = "start"
    /\ UNCHANGED <<optVars, jacVars, helperVars, inputVars, failure, trainerVars,
                   loopVars, returned, objectVars, append2output, loss_weights_seen>>

\* the weight vector compute_gradients hands to gptq_config.loss (Keras line
\* 195, PyTorch line 187): self.weights_for_average_loss
LossWeights_renormalised(w) == Returned(<< >>)
LossWeights(w) == w

(***************************************************************************)
(* Trainer construction: KerasGPTQTrainer.__init__ (lines 78-115) and      *)
(* PytorchGPTQTrainer.__init__ (lines 66-89), after GPTQTrainer.__init__.  *)
(***************************************************************************)
\* Keras lines 110-113, PyTorch lines 69-72: the input scales of the two
\* models must agree
InputScaleMismatch(float_user_info, gptq_user_info) ==
    float_user_info.input_scale # gptq_user_info.input_scale

\* the trainer's fields after __init__ of trainer class f, and where __init__
\* raised.  Keras (lines 88-115) checks the counts, builds the optimizer
\* groups, sets has_params_to_train, compares the input scales and computes
\* the loss weights; PyTorch (lines 67-89) compares the input scales first,
\* then checks the counts, builds the groups and computes the loss weights,
\* and has no has_params_to_train.
Constructed(f, c, points, graph, float_user_info, gptq_user_info, sizes, graph_float) ==
    LET model == build_gptq_model(graph, c)
        groups == get_optimizer_with_param(c, trainable_weights(model),
                                           bias_weights(model, c.train_bias),
                                           trainable_threshold(model))
        mismatch == InputScaleMismatch(float_user_info, gptq_user_info)
                    /\ LoggerErrorRaises
        unset == [fxp_model |-> model, optimizer_with_param |-> Pending,
                  has_params_to_train |-> "unset",
                  weights_for_average_loss |-> Pending]
        has_params == IF f = "keras" THEN HasParamsToTrain(groups.value)
                      ELSE "unset"
    IN  IF f = "pytorch" /\ mismatch
        THEN [failure |-> "input scale mismatch"] @@ unset
        ELSE IF ~CountsMatch(points, model)
        THEN [failure |-> "count mismatch"] @@ unset
        ELSE IF groups.state = "raised"
        THEN [failure |-> "missing optimizer_rest"] @@ unset
        ELSE IF f = "keras" /\ mismatch
        THEN [failure |-> "input scale mismatch",
              fxp_model |-> model,
              optimizer_with_param |-> groups,
              has_params_to_train |-> has_params,
              weights_for_average_loss |-> Pending]
        ELSE LET weights == compute_jacobian_based_weights(
                                c, points, sizes, graph_float, << >>).result
             IN  [failure |-> IF weights.state = "returned" THEN "none"
                              ELSE "compute_jacobian_based_weights",
                  fxp_model |-> model,
                  optimizer_with_param |-> groups,
                  has_params_to_train |-> has_params,
                  weights_for_average_loss |-> weights]

Construct ==
    /\ pc = "start"
    /\ LET t == Constructed(fw, gptq_config, compare_points, graph_quant,
                            user_info.float_user_info, user_info.gptq_user_info,
                            [b \in 1..batches_per_call |-> 1], CompatibleOutput)
       IN  /\ failure' = t.failure
           /\ pc' = IF t.failure = "none" THEN "built" ELSE "failed"
           /\ fxp_model' = t.fxp_model
           /\ optimizer_with_param' = t.optimizer_with_param
           /\ has_params_to_train' = t.has_params_to_train
           /\ weights_for_average_loss' = t.weights_for_average_loss
           /\ loss_list' = << >>
           /\ calls' = [calls EXCEPT !.compute_jacobian_based_weights =
                                         IF t.weights_for_average_loss.state # "pending"
                                         THEN @ + 1 ELSE @]
    /\ append2output' = [append2output EXCEPT
                            !.fxp_model = Returned(StudentAppend2Output(compare_points))]
    /\ UNCHANGED <<optVars, jacVars, helperVars, inputVars, loopVars, returned,
                   objectVars, num_batches, loss_weights_seen>>

(***************************************************************************)
(* train and micro_training_loop                                           *)
(***************************************************************************)
Groups == optimizer_with_param.value

\* PyTorch train, lines 148-150: optimizer.param_groups on every group; a
\* group bound to None raises AttributeError
SomeOptimizerIsNone == \E i \in DOMAIN Groups : Groups[i].optimizer = None

\* Keras train, lines 225-230; PyTorch train, lines 148-160
EntersLoop(f) == IF f = "keras" THEN has_params_to_train = "True" ELSE TRUE

Train ==
    /\ pc = "built"
    /\ IF fw = "pytorch" /\ SomeOptimizerIsNone
       THEN pc' = "failed" /\ failure' = "train"
       ELSE /\ pc' = IF EntersLoop(fw) THEN "epoch" ELSE "trained"
            /\ failure' = failure
    /\ UNCHANGED <<optVars, jacVars, helperVars, inputVars, trainerVars, loopVars, calls,
                   returned, objectVars, buildVars>>

\* for _ in range(n_epochs): the next epoch calls data_function(), or the
\* loop is over and train returns
RangeEpochs(n_epochs) == n_epochs

NextEpoch ==
    /\ pc = "epoch"
    /\ IF epoch < RangeEpochs(gptq_config.n_epochs)
       THEN /\ epoch' = epoch + 1
            /\ batch' = 0
            /\ calls' = [calls EXCEPT !.data_function = @ + 1]
            /\ pc' = "batch"
       ELSE /\ pc' = "trained"
            /\ UNCHANGED <<epoch, batch, calls>>
    /\ UNCHANGED <<optVars, jacVars, helperVars, inputVars, failure, trainerVars,
                   group_index, grads, returned, objectVars, buildVars>>

\* for data in data_function(): the iterator yields the next batch, or is
\* exhausted
NextBatch ==
    /\ pc = "batch"
    /\ IF batch < batches_per_call
       THEN /\ batch' = batch + 1
            /\ calls' = [calls EXCEPT !.batches = @ + 1, !.step_events = << >>]
            /\ pc' = "step"
       ELSE /\ pc' = "epoch"
            /\ UNCHANGED <<batch, calls>>
    /\ UNCHANGED <<optVars, jacVars, helperVars, inputVars, failure, trainerVars, epoch,
                   group_index, grads, returned, objectVars, buildVars>>

\* Keras lines 274-277 (nano_training_step), PyTorch lines 215-218: the input
\* is scaled, the float model and the quantized model run, the gradients are
\* computed.  The events of a step are pairs <<operation, argument>>.
NanoStepEvents_student_first(f) ==
    << <<"scale", "data">>, <<"fxp_model", "data">>, <<"loss", "y_fxp">>,
       <<"float_model", "input_data">>, <<"gradients", "loss">> >>
NanoStepEvents(f) ==
    << <<"scale", "data">>, <<"float_model", "input_data">>,
       <<"fxp_model", "input_data">>, <<"loss", "y_fxp">>,
       <<"gradients", "loss">> >>

\* compute_gradients adds the regularization value to the loss (Keras lines
\* 198-202, PyTorch lines 187-191) before the gradients are taken; an
\* exception of _get_quantizer_regularization_values leaves the step
NanoTrainingStep ==
    /\ pc = "step"
    /\ IF get_quantizer_regularization_values(gptq_config.rounding_type,
                                              fxp_model).state = "raised"
       THEN /\ calls' = [calls EXCEPT !.float_model = @ + 1, !.fxp_model = @ + 1,
                                      !.step_events =
                                          SubSeq(NanoStepEvents(fw), 1, 4)]
            /\ pc' = "failed"
            /\ failure' = "train"
            /\ UNCHANGED <<grads, group_index>>
       ELSE /\ \E g \in {-1, 1} : grads' = g
            /\ calls' = [calls EXCEPT !.float_model = @ + 1, !.fxp_model = @ + 1,
                                      !.gradients = @ + 1,
                                      !.step_events = NanoStepEvents(fw)]
            /\ group_index' = 1
            /\ pc' = "apply"
            /\ failure' = failure
    /\ loss_weights_seen' = loss_weights_seen \cup {LossWeights(weights_for_average_loss)}
    /\ UNCHANGED <<optVars, jacVars, helperVars, inputVars, trainerVars, epoch,
                   batch, returned, objectVars, append2output, num_batches>>

\* one optimizer update of the parameters params with gradient g: the
\* auxiliary variables and the biases move against the gradient, a threshold
\* is doubled
Updated(layer, i, params, g) ==
    LET in(kind) == \E k \in DOMAIN params : params[k] = <<kind, i>>
        qp == layer.quantizer_parameters
    IN  [layer EXCEPT
            !.bias = IF in("bias") THEN @ - g ELSE @,
            !.quantizer_parameters =
                [qp EXCEPT
                    !.auxvar = IF in("auxvar")
                               THEN [j \in DOMAIN qp.auxvar |-> qp.auxvar[j] - g]
                               ELSE @,
                    !.ptq_threshold =
                        IF in("threshold")
                        THEN Tensor(qp.ptq_threshold.shape,
                                    [j \in DOMAIN qp.ptq_threshold.data |->
                                        2 * qp.ptq_threshold.data[j]])
                        ELSE @]]

\* what follows the last optimizer update of a batch
AfterUpdates == IF gptq_config.log_function THEN "log" ELSE "append"

\* Keras lines 280-281: o.apply_gradients(zip(grads[i], p)); PyTorch lines
\* 220-222: optimizer.step(), optimizer.zero_grad().  One group per step, in
\* list order; a group bound to None raises AttributeError.
ApplyGradients ==
    /\ pc = "apply"
    /\ IF Groups[group_index].optimizer = None
       THEN /\ pc' = "failed"
            /\ failure' = "train"
            /\ UNCHANGED <<fxp_model, group_index, calls>>
       ELSE /\ fxp_model' =
                  [i \in DOMAIN fxp_model |->
                      Updated(fxp_model[i], i, Groups[group_index].params, grads)]
            /\ calls' = [calls EXCEPT !.optimizer_steps = @ + 1,
                                      !.step_events = Append(@, <<"update", group_index>>)]
            /\ group_index' = group_index + 1
            /\ pc' = IF group_index = Len(Groups) THEN AfterUpdates ELSE "apply"
            /\ failure' = failure
    /\ UNCHANGED <<optVars, jacVars, helperVars, inputVars, optimizer_with_param,
                   has_params_to_train, weights_for_average_loss, loss_list, epoch,
                   batch, grads, returned, objectVars, buildVars>>

\* the arguments of the log_function call: Keras lines 283-284 pass the loss,
\* grads[0], the parameters of the first group and the compare points; PyTorch
\* lines 224-226 pass the loss, all the gradients and the parameters of the
\* first group
LogArguments(f) ==
    IF f = "keras"
    THEN <<"loss", "grads[0]", "optimizer_with_param[0][-1]", "compare_points">>
    ELSE <<"loss", "grads", "optimizer_with_param[0][-1]">>

\* Keras lines 282-284, PyTorch lines 223-226
LogFunction ==
    /\ pc = "log"
    /\ calls' = [calls EXCEPT !.log_function = @ + 1,
                              !.log_arguments = LogArguments(fw)]
    /\ pc' = "append"
    /\ UNCHANGED <<optVars, jacVars, helperVars, inputVars, failure, trainerVars,
                   loopVars, returned, objectVars, buildVars>>

\* Keras line 285, PyTorch line 227: the loss of batch `batch` of epoch
\* `epoch` is appended
AppendLoss_twice(l) == l \o << <<epoch, batch>>, <<epoch, batch>> >>
AppendLoss(l) == Append(l, <<epoch, batch>>)

AppendLossValue ==
    /\ pc = "append"
    /\ loss_list' = AppendLoss(loss_list)
    /\ pc' = "batch"
    /\ UNCHANGED <<optVars, jacVars, helperVars, inputVars, failure, fxp_model,
                   optimizer_with_param, has_params_to_train,
                   weights_for_average_loss, loopVars, calls, returned, objectVars,
                   buildVars>>

(***************************************************************************)
(* update_graph (Keras lines 295-321, PyTorch lines 237-259) and the       *)
(* return of gptq_training (lines 302-304)                                 *)
(***************************************************************************)
\* the node of layer `layer` after its update: the quantized kernel, the
\* threshold of get_quant_config, and the bias when bias training is enabled
UpdatedNode(node, layer, c) ==
    [node EXCEPT
        !.weights = STE_call(layer.quantizer, layer.quantizer_parameters,
                             layer.kernel),
        !.final_weights_quantization_cfg.threshold =
            get_quant_config(layer.quantizer, layer.quantizer_parameters),
        !.bias = IF c.train_bias /\ layer.has_bias THEN layer.bias ELSE @]

\* gptq_training, lines 298-302: update_graph is called when train has
\* returned; an exception of the constructor or of train leaves gptq_training
UpdateGraphCalled_after_failure(p) == p \in {"trained", "failed"}
UpdateGraphCalled(p) == p = "trained"

UpdateGraph ==
    /\ UpdateGraphCalled(pc)
    /\ graph_quant' = [i \in DOMAIN graph_quant |->
                          UpdatedNode(graph_quant[i], fxp_model[i], gptq_config)]
    /\ calls' = [calls EXCEPT !.update_graph = @ + 1]
    /\ pc' = "updated"
    /\ ids' = [ids EXCEPT !.returned = ShallowCopy(ids.graph_quant)]
    /\ written' = written \cup {ids.graph_quant[i] : i \in DOMAIN fxp_model}
    /\ UNCHANGED <<optVars, jacVars, helperVars, fw, gptq_config, compare_points,
                   batches_per_call, user_info, failure, trainerVars, loopVars,
                   returned, buildVars>>

ReturnGraph ==
    /\ pc = "updated"
    /\ returned' = Returned(graph_quant)
    /\ pc' = "done"
    /\ UNCHANGED <<optVars, jacVars, helperVars, inputVars, failure, trainerVars,
                   loopVars, calls, objectVars, buildVars>>

(***************************************************************************)
(* Specification SpecOpt: get_optimizer_with_param on every configuration  *)
(* and every triple of pairwise-disjoint parameter lists.                  *)
(***************************************************************************)
OptConfigs ==
    [optimizer : {"optimizer"},
     train_bias : BOOLEAN,
     quantization_parameters_learning : BOOLEAN,
     optimizer_bias : {None, "optimizer_bias"},
     optimizer_quantization_parameter : {None, "optimizer_quantization_parameter"},
     optimizer_rest : {None, "optimizer_rest"}]

\* the run of gptq_training has not started and never does
RunIdle ==
    /\ fw = "keras"
    /\ gptq_config = [optimizer |-> "optimizer"]
    /\ compare_points = << >>
    /\ graph_quant = << >>
    /\ batches_per_call = 0
    /\ user_info = [float_user_info |-> [input_scale |-> 1],
                    gptq_user_info |-> [input_scale |-> 1]]
    /\ pc = "idle"
    /\ failure = "none"
    /\ fxp_model = << >>
    /\ optimizer_with_param = Pending
    /\ has_params_to_train = "unset"
    /\ weights_for_average_loss = Pending
    /\ loss_list = << >>
    /\ epoch = 0 /\ batch = 0 /\ group_index = 0 /\ grads = 0
    /\ calls = [data_function |-> 0]
    /\ returned = Pending
    /\ ids = << >>
    /\ written = {}
    /\ append2output = << >>
    /\ num_batches = None
    /\ loss_weights_seen = {}

\* no helper method is called on its own
HelperIdle ==
    /\ helperOp = "none"
    /\ helperIn = << >>
    /\ helperOut = << >>

\* get_optimizer_with_param is not called on its own
OptIdle ==
    /\ optCfg = [optimizer |-> "optimizer"]
    /\ optIn = << >>
    /\ optOut = Raised

\* compute_jacobian_based_weights is not called on its own
JacIdle ==
    /\ jacCfg = [use_jac_based_weights |-> FALSE, log_norm |-> FALSE,
                 num_samples_for_loss |-> 1]
    /\ jacPoints = << >>
    /\ jacSizes = << >>
    /\ jacGraph = CompatibleOutput
    /\ jacScores = << >>
    /\ jacOut = Raised
    /\ jacCalls = [data_gen |-> 0, model_grad |-> 0]

OptInit ==
    /\ optCfg \in OptConfigs
    /\ \E na \in 0..MaxParams, nb \in 0..MaxParams, nq \in 0..MaxParams :
          optIn = [aux |-> ParamList("auxvar", na),
                   bias |-> ParamList("bias", nb),
                   qp |-> ParamList("threshold", nq)]
    /\ optOut = Pending
    /\ JacIdle
    /\ HelperIdle
    /\ RunIdle

CallGetOptimizerWithParam ==
    /\ optOut.state = "pending"
    /\ pc = "idle"
    /\ optOut' = get_optimizer_with_param(optCfg, optIn.aux, optIn.bias, optIn.qp)
    /\ UNCHANGED <<optCfg, optIn, jacVars, helperVars, runVars>>

OptNext == CallGetOptimizerWithParam

SpecOpt == OptInit /\ [][OptNext]_vars

(***************************************************************************)
(* Specification SpecJac: compute_jacobian_based_weights called on a       *)
(* trainer with n compare points and a data source of k images.            *)
(***************************************************************************)
\* the scores model_grad returns
ScoreValues == {0, 1, 3}

\* the float graphs of two nodes whose output is node 2
JacGraphs == {g \in OutputGraphs(2, 1) : g.outputs = <<2>>}

\* the data sources: at most MaxBatches batches of at most MaxImages images
JacSources == UNION {[1..k -> 0..MaxImages] : k \in 0..MaxBatches}

\* Three families of calls: the uniform branch on n compare points; the
\* jacobian branch on every score of a source of one batch of k images;
\* and the jacobian branch on every source, quota and float graph, with
\* all scores 1.
JacInit ==
    /\ jacCfg \in [use_jac_based_weights : BOOLEAN, log_norm : BOOLEAN,
                    num_samples_for_loss : 0..MaxImages]
    /\ \E n \in 0..MaxPoints :
          /\ jacPoints = [i \in 1..n |-> i]
          /\ IF ~jacCfg.use_jac_based_weights
             THEN /\ jacCfg.num_samples_for_loss = MaxImages
                  /\ jacSizes = <<1>>
                  /\ jacGraph = CompatibleOutput
                  /\ jacScores = [i \in 1..MaxImages |-> [p \in 1..n |-> 1]]
             ELSE /\ n \in 1..MaxJacPoints
                  /\ \/ /\ jacCfg.num_samples_for_loss = MaxImages
                        /\ \E k \in 1..MaxImages :
                              /\ jacSizes = <<k>>
                              /\ jacScores \in [1..k -> [1..n -> ScoreValues]]
                        /\ jacGraph = CompatibleOutput
                     \/ /\ jacSizes \in JacSources
                        /\ jacGraph \in JacGraphs
                        /\ jacScores = [i \in 1..MaxImages |-> [p \in 1..n |-> 1]]
    /\ jacOut = Pending
    /\ jacCalls = [data_gen |-> 0, model_grad |-> 0]
    /\ OptIdle
    /\ HelperIdle
    /\ RunIdle

CallComputeJacobianBasedWeights ==
    /\ jacOut.state = "pending"
    /\ pc = "idle"
    /\ LET r == compute_jacobian_based_weights(jacCfg, jacPoints, jacSizes,
                                               jacGraph, jacScores)
       IN  /\ jacOut' = r.result
           /\ jacCalls' = [data_gen |-> r.data_gen, model_grad |-> r.model_grad]
    /\ UNCHANGED <<jacCfg, jacPoints, jacSizes, jacGraph, jacScores, optVars,
                   helperVars, runVars>>

JacNext == CallComputeJacobianBasedWeights

SpecJac == JacInit /\ [][JacNext]_vars

(***************************************************************************)
(* Specification Spec: one run of gptq_training with either trainer.       *)
(***************************************************************************)
\* the input scales of the two models' user information: both 1, or one of
\* them 2
UnitScales2 == [float_user_info |-> [input_scale |-> 2],
                gptq_user_info |-> [input_scale |-> 2]]
UserInfos ==
    {[float_user_info |-> [input_scale |-> a], gptq_user_info |-> [input_scale |-> b]] :
        a \in {1, 2}, b \in {1, 2}} \ {UnitScales2}

Configs ==
    {c @@ [n_epochs |-> n, log_function |-> l,
           use_jac_based_weights |-> FALSE, log_norm |-> FALSE,
           num_samples_for_loss |-> 1, rounding_type |-> r] :
        c \in OptConfigs, n \in 0..MaxEpochs, l \in BOOLEAN,
        r \in RoundingTypes}

Init ==
    /\ OptIdle
    /\ JacIdle
    /\ HelperIdle
    /\ fw \in {"keras", "pytorch"}
    /\ gptq_config \in Configs
    /\ \E n \in 0..MaxLayers : compare_points = [i \in 1..n |-> i]
    /\ graph_quant \in Graphs(MaxLayers)
    /\ batches_per_call \in 0..MaxBatches
    \* the input scales the model builders report; a run whose scales differ
    \* ends in the constructor, and is started with no epoch and no batch
    /\ user_info \in UserInfos
    /\ user_info.float_user_info.input_scale # user_info.gptq_user_info.input_scale =>
           /\ gptq_config.n_epochs = 0
           /\ ~gptq_config.log_function
           /\ batches_per_call = 0
    /\ pc = "call"
    /\ failure = "none"
    /\ fxp_model = << >>
    /\ optimizer_with_param = Pending
    /\ has_params_to_train = "unset"
    /\ weights_for_average_loss = Pending
    /\ loss_list = << >>
    /\ epoch = 0 /\ batch = 0 /\ group_index = 0 /\ grads = 0
    /\ calls = [data_function |-> 0, batches |-> 0, float_model |-> 0,
                fxp_model |-> 0, gradients |-> 0, optimizer_steps |-> 0,
                log_function |-> 0, update_graph |-> 0,
                compute_jacobian_based_weights |-> 0,
                dry_run_data_function |-> 0, dry_run_batches |-> 0,
                set_num_batches |-> 0, log_arguments |-> << >>,
                step_events |-> << >>]
    /\ returned = Pending
    \* the caller's graphs: two graph objects over node objects of their own
    /\ LET quant == [i \in DOMAIN graph_quant |-> i]
       IN  ids = [caller_quant |-> quant,
                  caller_float |-> [i \in DOMAIN quant |-> Len(quant) + i],
                  graph_float |-> << >>, graph_quant |-> << >>,
                  returned |-> << >>]
    /\ written = {}
    /\ append2output = [float_model |-> Pending, fxp_model |-> Pending]
    /\ num_batches = None
    /\ loss_weights_seen = {}

Next ==
    \/ BaseInit
    \/ CountNumBatchesForTraining
    \/ Construct
    \/ Train
    \/ NextEpoch
    \/ NextBatch
    \/ NanoTrainingStep
    \/ ApplyGradients
    \/ LogFunction
    \/ AppendLossValue
    \/ UpdateGraph
    \/ ReturnGraph

Spec == Init /\ [][Next]_vars

(***************************************************************************)
(* Claims about get_optimizer_with_param (checked under SpecOpt).          *)
(***************************************************************************)
RECURSIVE Flatten(_)
\* the concatenation of the parameter lists of a list of groups
Flatten(groups) ==
    IF groups = << >> THEN << >> ELSE Head(groups).params \o Flatten(Tail(groups))

Range(s) == {s[i] : i \in DOMAIN s}
NoDuplicates(s) == \A i, j \in DOMAIN s : s[i] = s[j] => i = j

\* the parameters flagged trainable by the configuration
TrainableSet(c, in) ==
    Range(in.aux)
    \cup (IF c.train_bias THEN Range(in.bias) ELSE {})
    \cup (IF c.quantization_parameters_learning THEN Range(in.qp) ELSE {})

\* C1: whenever get_optimizer_with_param returns (for pairwise-disjoint input
\* lists), no parameter appears twice in the returned groups, and the union
\* of the groups' parameter lists is exactly the auxiliary variables, plus the
\* bias parameters iff train_bias, plus the quantization parameters iff
\* quantization_parameters_learning.
C1_GroupsPartitionTrainable ==
    optOut.state = "returned" =>
        /\ NoDuplicates(Flatten(optOut.value))
        /\ Range(Flatten(optOut.value)) = TrainableSet(optCfg, optIn)

C1_Witness ==
    /\ optOut.state = "returned"
    /\ optCfg.train_bias /\ optCfg.quantization_parameters_learning
    /\ optCfg.optimizer_bias # None
    /\ optCfg.optimizer_quantization_parameter = None
    /\ Len(optIn.aux) = MaxParams /\ Len(optIn.bias) = MaxParams
    /\ Len(optIn.qp) = MaxParams
    /\ Len(optOut.value) = 3

\* the condition of C2: no rest optimizer, and an enabled set without its
\* dedicated optimizer
NeedsRestButMissing(c) ==
    /\ c.optimizer_rest = None
    /\ \/ c.train_bias /\ c.optimizer_bias = None
       \/ c.quantization_parameters_learning
          /\ c.optimizer_quantization_parameter = None

\* C2: when optimizer_rest is not configured and an enabled parameter set
\* (bias, quantization parameters) has no dedicated optimizer, the call fails
\* with the configuration error and returns no optimizer groups.
C2_MissingRestIsFatal ==
    (optOut.state # "pending" /\ NeedsRestButMissing(optCfg)) =>
        /\ optOut.state = "raised"
        /\ optOut.value = << >>

C2_Witness ==
    /\ optOut.state = "raised"
    /\ optCfg.train_bias /\ optCfg.optimizer_bias = None
    /\ ~optCfg.quantization_parameters_learning
    /\ optCfg.optimizer_rest = None

\* the optimizers of the groups of gs that hold parameter p
OptimizersOf(gs, p) ==
    {gs[i].optimizer : i \in {k \in DOMAIN gs : p \in Range(gs[k].params)}}

\* C3: in the returned list the first group is (primary optimizer, all
\* auxiliary variables); every bias parameter is bound to optimizer_bias when
\* it is configured and to optimizer_rest otherwise; every quantization
\* parameter is bound to optimizer_quantization_parameter when it is
\* configured and to optimizer_rest otherwise; with train_bias disabled no
\* group is bound to optimizer_bias or holds a bias parameter, and with
\* quantization_parameters_learning disabled no group is bound to
\* optimizer_quantization_parameter or holds a quantization parameter.
C3_ParametersBoundByRule ==
    optOut.state = "returned" =>
        LET gs == optOut.value
            c == optCfg
        IN  /\ gs[1] = Group(c.optimizer, optIn.aux)
            /\ \A p \in Range(optIn.bias) :
                  OptimizersOf(gs, p) =
                      IF ~c.train_bias THEN {}
                      ELSE IF c.optimizer_bias # None THEN {c.optimizer_bias}
                      ELSE {c.optimizer_rest}
            /\ \A p \in Range(optIn.qp) :
                  OptimizersOf(gs, p) =
                      IF ~c.quantization_parameters_learning THEN {}
                      ELSE IF c.optimizer_quantization_parameter # None
                           THEN {c.optimizer_quantization_parameter}
                      ELSE {c.optimizer_rest}
            /\ ~c.train_bias =>
                  \A i \in DOMAIN gs : gs[i].optimizer # "optimizer_bias"
            /\ ~c.quantization_parameters_learning =>
                  \A i \in DOMAIN gs :
                      gs[i].optimizer # "optimizer_quantization_parameter"

C3_Witness ==
    /\ optOut.state = "returned"
    /\ optCfg.train_bias /\ optCfg.optimizer_bias = None
    /\ optCfg.quantization_parameters_learning
    /\ optCfg.optimizer_quantization_parameter # None
    /\ optCfg.optimizer_rest # None
    /\ Len(optIn.bias) > 0 /\ Len(optIn.qp) > 0
    /\ Len(optOut.value) = 3

(***************************************************************************)
(* Claims about compute_jacobian_based_weights (checked under SpecJac).    *)
(***************************************************************************)
RECURSIVE BitsValue(_)
\* the number a short bit sequence spells
BitsValue(s) ==
    IF s = << >> THEN 0
    ELSE 2 * BitsValue(SubSeq(s, 1, Len(s) - 1)) + s[Len(s)]

\* a distance no float near 1 has
Far == Pow2(20)

\* |x - 1| in units of 2^-53, or Far when it is 2^-33 or more
UlpsFromOne(x) ==
    IF x.e = 0 /\ \A i \in 2..33 : x.m[i] = 0
    THEN 2 * BitsValue(SubSeq(x.m, 34, Precision))
    ELSE IF x.e = -1 /\ \A i \in 1..33 : x.m[i] = 1
    THEN Pow2(20) - BitsValue(SubSeq(x.m, 34, Precision))
    ELSE Far

\* the double 0x1.5555555555555p-2, which the literal 1/3 denotes
Third == [e |-> -2, m |-> [i \in 1..Precision |-> i % 2]]

UniformCallMade ==
    /\ jacOut.state # "pending"
    /\ ~jacCfg.use_jac_based_weights
    /\ Len(jacPoints) >= 1

UniformShape ==
    /\ jacOut.state = "returned"
    /\ Len(jacOut.value) = Len(jacPoints)
    /\ \A i \in DOMAIN jacOut.value : jacOut.value[i] = FloatOneOver(Len(jacPoints))
    /\ Len(jacPoints) = 3 => jacOut.value = <<Third, Third, Third>>
    /\ jacCalls = [data_gen |-> 0, model_grad |-> 0]

\* C9 as stated: with use_jac_based_weights disabled and n >= 1 compare
\* points the call returns n entries, all equal to 1/n, that sum to 1 (for
\* n = 3 exactly [1/3, 1/3, 1/3]), and reads no data and calls no model_grad.
\* The sum of six entries 1/6 is 1 - 2^-53.
C9_AsStated ==
    UniformCallMade =>
        /\ UniformShape
        /\ FloatSum(jacOut.value) = FloatOne

\* C9: with use_jac_based_weights disabled and n >= 1 compare points the call
\* returns n entries, all equal to the float 1/n (for n = 3 exactly
\* [1/3, 1/3, 1/3]), whose sum is within n * 2^-53 of 1 and is exactly 1 for
\* n <= 5; the data source is not iterated and model_grad is not called.
C9_UniformWeights ==
    UniformCallMade =>
        /\ UniformShape
        /\ UlpsFromOne(FloatSum(jacOut.value)) <= Len(jacPoints)
        /\ Len(jacPoints) <= 5 => FloatSum(jacOut.value) = FloatOne

\* six compare points: the entries are 1/6 and their sum is not 1
C9_Witness ==
    /\ UniformCallMade
    /\ Len(jacPoints) = 6
    /\ jacOut.state = "returned"
    /\ FloatSum(jacOut.value) # FloatOne
    /\ UlpsFromOne(FloatSum(jacOut.value)) = 1

IsZeroWeight(w) == w.kind = "log" /\ w.num = w.den
NonNegativeWeight(w) == w.kind = "+inf" \/ (w.kind = "log" /\ w.num >= w.den)

\* C10 as stated: with use_jac_based_weights and log_norm enabled, for every
\* vector of non-negative averaged scores (zeros and length 1 included) the
\* call returns a vector whose minimum entry is exactly 0 and whose other
\* entries are non-negative (on the calls that reach the log_norm branch
\* with the scores of at least one image).
C10_LogNormMinimumIsZero ==
    (/\ jacOut.state # "pending"
     /\ jacCfg.use_jac_based_weights
     /\ jacCfg.log_norm
     /\ jacCalls.model_grad >= 1)
    => /\ jacOut.state = "returned"
       /\ \E i \in DOMAIN jacOut.value : IsZeroWeight(jacOut.value[i])
       /\ \A i \in DOMAIN jacOut.value : NonNegativeWeight(jacOut.value[i])

(***************************************************************************)
(* Claims about one run of gptq_training (checked under Spec).             *)
(***************************************************************************)
ConstructorFailures == {"count mismatch", "missing optimizer_rest",
                        "input scale mismatch", "compute_jacobian_based_weights"}
LoopPositions == {"epoch", "batch", "step", "apply", "log", "append"}

\* the trainer was constructed: train has been or can be called
BeforeConstruct == {"idle", "call", "copied", "start"}
TrainerBuilt == pc \notin BeforeConstruct /\ failure \notin ConstructorFailures

\* train has been called
TrainCalled == TrainerBuilt /\ pc # "built"

AllGroupsEmpty == \A i \in DOMAIN Groups : Groups[i].params = << >>
AllGroupsHaveOptimizer == \A i \in DOMAIN Groups : Groups[i].optimizer # None

NoTrainingStepRan ==
    /\ calls.batches = 0
    /\ calls.float_model = 0
    /\ calls.fxp_model = 0
    /\ calls.gradients = 0
    /\ calls.optimizer_steps = 0
    /\ loss_list = << >>

\* C4 as stated, on the runs whose groups are all bound to an optimizer: when
\* every optimizer group has an empty parameter list, train() never enters
\* the training loop (no batch is pulled, no forward or backward pass runs,
\* no optimizer steps, nothing is appended to the loss history) and returns
\* without error, in the Keras trainer and in the PyTorch trainer.
C4_NothingTrainableIsNoOp ==
    (TrainCalled /\ AllGroupsEmpty /\ AllGroupsHaveOptimizer)
    => /\ NoTrainingStepRan
       /\ failure = "none"

\* the Keras half of C4, which the guard of lines 225-230 gives
C4_KerasGuardHolds ==
    (fw = "keras" /\ TrainCalled /\ AllGroupsEmpty)
    => /\ NoTrainingStepRan
       /\ failure = "none"

\* C5: when the number of compare points differs from the number of
\* trainable-weight entries, float loss weights or quantized loss weights,
\* the constructor raises before any optimizer group is built, before the
\* loss weights are computed and before any training step runs.
CountsAllEqual ==
    /\ Len(compare_points) = Len(trainable_weights(fxp_model))
    /\ Len(compare_points) = Len(flp_weights_list(fxp_model))
    /\ Len(compare_points) = Len(fxp_weights_list(fxp_model))

C5_CountMismatchFailsConstruction ==
    (pc \notin BeforeConstruct /\ ~CountsAllEqual)
    => /\ pc = "failed"
       \* the PyTorch constructor compares the input scales before the counts
       /\ failure = IF fw = "pytorch" /\ InputScaleMismatch(user_info.float_user_info,
                                                            user_info.gptq_user_info)
                    THEN "input scale mismatch" ELSE "count mismatch"
       /\ optimizer_with_param = Pending
       /\ has_params_to_train = "unset"
       /\ weights_for_average_loss = Pending
       /\ NoTrainingStepRan
       /\ calls.data_function = 0
       /\ calls.update_graph = 0
       /\ returned = Pending

\* one compare point, two wrapped layers: the PyTorch constructor has raised
C5_Witness ==
    /\ fw = "pytorch"
    /\ Len(compare_points) = 1
    /\ Len(graph_quant) = 2
    /\ pc = "failed"
    /\ failure = "count mismatch"

C6_PhaseInvariant ==
    /\ calls.update_graph <= 1
    /\ calls.update_graph = 1 <=> pc \in {"updated", "done"}
    /\ failure # "none" => pc = "failed" /\ calls.update_graph = 0 /\ returned = Pending
    /\ returned.state = "returned" => pc = "done" /\ returned.value = graph_quant

C6_PhaseStep ==
    /\ pc' = "built" => pc \in {"start", "built"}
    /\ pc' \in LoopPositions => pc \in {"built"} \cup LoopPositions
    /\ pc' = "trained" => pc \in {"built", "epoch", "trained"}
    /\ pc' = "updated" => pc \in {"trained", "updated"}
    /\ pc' = "done" => pc \in {"updated", "done"}
    /\ pc = "failed" => pc' = "failed"
    /\ pc' = "failed" => pc \in {"start", "built", "apply", "failed"}
    /\ calls'.update_graph # calls.update_graph =>
           pc = "trained" /\ failure = "none" /\ calls.update_graph = 0
    /\ graph_quant' # graph_quant => calls'.update_graph # calls.update_graph
    /\ returned' # returned =>
           calls.update_graph = 1 /\ returned' = Returned(graph_quant)

\* C6: the phases of a run follow Built -> Training -> Updated: update_graph
\* runs at most once, only from the position where train has returned, never
\* after the constructor or train raised, a finished run has run it exactly
\* once, and the graph returned is the one update_graph produced.
C6_PhasesInOrder == [](C6_PhaseInvariant) /\ [][C6_PhaseStep]_vars

\* a run that trained on at least one batch, updated the graph and returned it
C6_Witness ==
    /\ pc = "done"
    /\ calls.batches > 0
    /\ calls.update_graph = 1
    /\ returned = Returned(graph_quant)

\* batch steps begun and not completed
StepsInProgress ==
    IF pc \in {"step", "apply", "log", "append"} \/ (pc = "failed" /\ calls.batches > 0)
    THEN 1 ELSE 0

C7_HistoryInvariant ==
    TrainerBuilt =>
        /\ Len(loss_list) = calls.batches - StepsInProgress
        /\ pc \in {"log", "append"} =>
               calls.optimizer_steps = calls.batches * Len(Groups)
        /\ (/\ pc \in {"trained", "updated", "done"}
            /\ ~AllGroupsEmpty)
           => Len(loss_list) = gptq_config.n_epochs * batches_per_call

C7_HistoryStep ==
    loss_list' # loss_list =>
        /\ pc = "append"
        /\ Len(loss_list') = Len(loss_list) + 1
        /\ calls.optimizer_steps = calls.batches * Len(Groups)

\* C7: the loss history is as long as the number of completed batch steps at
\* every point of training, each step appends one value after all its
\* optimizer updates, and when train returns with at least one trainable
\* parameter the history holds n_epochs * (batches per data source call)
\* values.
C7_LossHistoryCountsSteps == [](C7_HistoryInvariant) /\ [][C7_HistoryStep]_vars

\* two epochs of two batches: train has returned with four losses
C7_Witness ==
    /\ pc = "trained"
    /\ ~AllGroupsEmpty
    /\ gptq_config.n_epochs = 2
    /\ batches_per_call = 2
    /\ Len(loss_list) = 4

\* the node a graph node was configured as
ConfiguredNode(node) == IF node.type = "Dense" THEN DenseNode ELSE ConvNode

\* x quantized to the grid of threshold t with no perturbation
PlainQuantized(x, t, num_bits, power_of_two) ==
    LET T == IF power_of_two THEN power_of_two_max(t) ELSE t
        P == Pow2(num_bits - 1)
    IN  [num |-> T * Clip(RoundDiv(x * P, T), -P, P - 1), den |-> P]

\* the weights update_graph writes to node i when nothing was trained
InitialQuantizedWeights(i) ==
    LET cfg == ConfiguredNode(graph_quant[i]).final_weights_quantization_cfg
    IN  [j \in DOMAIN graph_quant[i].kernel |->
            PlainQuantized(graph_quant[i].kernel[j],
                           IF cfg.weights_per_channel_threshold
                           THEN cfg.threshold.data[j] ELSE cfg.threshold.data[1],
                           cfg.weights_n_bits, cfg.power_of_two)]

ParametersAreInitial ==
    \A i \in DOMAIN fxp_model :
        /\ \A j \in DOMAIN fxp_model[i].quantizer_parameters.auxvar :
               fxp_model[i].quantizer_parameters.auxvar[j] = 0
        /\ fxp_model[i].quantizer_parameters.ptq_threshold.data =
               ConfiguredNode(graph_quant[i]).final_weights_quantization_cfg.threshold.data

ZeroEpochsLeavesInitial ==
    /\ calls.batches = 0
    /\ loss_list = << >>
    /\ ParametersAreInitial
    /\ pc \in {"updated", "done"} =>
           \A i \in DOMAIN graph_quant : graph_quant[i].weights = InitialQuantizedWeights(i)

\* C8 as stated: with n_epochs = 0, train() pulls no batch and leaves the
\* loss history empty and every quantizer parameter at its initial value
\* (auxiliary variable zero, threshold as configured), and update_graph then
\* completes without error, writing to each wrapped node the weights
\* quantized with those initial parameters.
C8_ZeroEpochsUpdateSucceeds ==
    (gptq_config.n_epochs = 0 /\ TrainCalled)
    => /\ ZeroEpochsLeavesInitial
       /\ failure = "none"

\* C8 on the runs whose groups are all bound to an optimizer
C8_HoldsWithOptimizers ==
    (gptq_config.n_epochs = 0 /\ TrainCalled /\ AllGroupsHaveOptimizer)
    => /\ ZeroEpochsLeavesInitial
       /\ failure = "none"

(***************************************************************************)
(* The loss-weight vector (C11)                                            *)
(***************************************************************************)
C11_WeightsInvariant ==
    /\ calls.compute_jacobian_based_weights <= 1
    /\ TrainerBuilt =>
           /\ calls.compute_jacobian_based_weights = 1
           /\ weights_for_average_loss.state = "returned"
    /\ calls.gradients > 0 => calls.compute_jacobian_based_weights = 1
    /\ loss_weights_seen \subseteq {weights_for_average_loss}

C11_WeightsStep ==
    /\ weights_for_average_loss' # weights_for_average_loss =>
           /\ pc = "start"
           /\ calls.compute_jacobian_based_weights = 0
           /\ calls.gradients = 0
    /\ calls'.compute_jacobian_based_weights # calls.compute_jacobian_based_weights =>
           pc = "start"

\* C11: the loss-weight vector is computed once, by the constructor and before
\* any training step; no training step, optimizer update or update_graph
\* assigns it afterwards, and every batch's loss is computed with that vector.
C11_LossWeightsFixedAtConstruction ==
    [](C11_WeightsInvariant) /\ [][C11_WeightsStep]_vars

\* a finished run of several batches over two compare points, all of whose
\* losses used the constructor's vector
C11_Witness ==
    /\ pc = "done"
    /\ calls.gradients >= 2
    /\ Len(compare_points) = 2
    /\ loss_weights_seen = {weights_for_average_loss}
    /\ calls.compute_jacobian_based_weights = 1

(***************************************************************************)
(* Helper methods of GPTQTrainer, each called on its own.  helperOp names  *)
(* the method, helperIn holds its arguments, and helperOut its outcome and *)
(* what it logged.                                                         *)
(***************************************************************************)
MaxGenBatches == 3
MaxQuota == 3
MaxNodes == 4
MaxOutputs == 2

HelperOps1 == {"_generate_images_batch", "_get_model_output_replacement"}

HelperInputs1(op) ==
    IF op = "_generate_images_batch"
    THEN {[sizes |-> s, num_samples_for_loss |-> n] :
             s \in UNION {[1..k -> 0..MaxImages] : k \in 0..MaxGenBatches},
             n \in 0..MaxQuota}
    ELSE OutputGraphs(MaxNodes, MaxOutputs)

HelperPending == [warnings |-> 0, result |-> Pending]

GenerateImagesBatch ==
    /\ helperOp = "_generate_images_batch"
    /\ helperOut = HelperPending
    /\ helperOut' = generate_images_batch(helperIn.sizes, helperIn.num_samples_for_loss)
    /\ UNCHANGED <<helperOp, helperIn, optVars, jacVars, runVars>>

GetModelOutputReplacement ==
    /\ helperOp = "_get_model_output_replacement"
    /\ helperOut = HelperPending
    /\ helperOut' = get_model_output_replacement(helperIn)
    /\ UNCHANGED <<helperOp, helperIn, optVars, jacVars, runVars>>

\* an exception whose message names `v`
RaisedWith(v) == [state |-> "raised", value |-> v]

(***************************************************************************)
(* _is_gptq_applicable and gptq_wrapper on any node (Keras lines 117-151,  *)
(* PyTorch lines 91-123), and the model builder calling the wrapper on     *)
(* every node of the graph in order.                                       *)
(***************************************************************************)
NodeTypes == {"Dense", "Conv2D", "ReLU", "Add"}

\* fw_info.is_kernel_op(node.type)
is_kernel_op(type) == type \in {"Dense", "Conv2D"}

\* the nodes a graph may hold: a name, an operator type, and whether weights
\* quantization is enabled
AnyNode(name) ==
    {[name |-> name, type |-> t, weights_quantization_enabled |-> e] :
        t \in NodeTypes, e \in BOOLEAN}

AnyGraphs == UNION {{g \in [1..k -> UNION {AnyNode(i) : i \in 1..k}] :
                        \A i \in 1..k : g[i].name = i} : k \in 0..MaxLayers}

\* the error branch of _is_gptq_applicable: weights quantization is enabled
\* on a node that is not a kernel operator
QuantizedWithoutKernel_any_type(node) == FALSE
QuantizedWithoutKernel(node) ==
    node.weights_quantization_enabled /\ ~is_kernel_op(node.type)

is_gptq_applicable(node) ==
    IF QuantizedWithoutKernel(node) /\ LoggerErrorRaises
    THEN RaisedWith(<<node.name, node.type>>)
    ELSE Returned(node.weights_quantization_enabled)

\* the node of the graphs of Spec with the operator type of `node`
KernelNode(node) == IF node.type = "Dense" THEN DenseNode ELSE ConvNode

\* the layer the framework builds for a node, before wrapping
LayerOf(node) == [wrapped |-> FALSE, layer |-> node.name]

\* gptq_wrapper: the wrapper around the layer, or the layer as it is
wrap_if_applicable(node, layer, c) ==
    LET applicable == is_gptq_applicable(node)
    IN  IF applicable.state = "raised" THEN applicable
        ELSE IF applicable.value
        THEN Returned([wrapped |-> TRUE, layer |-> layer.layer,
                       wrapper |-> IF is_kernel_op(node.type)
                                   THEN gptq_wrapper(KernelNode(node), c)
                                   ELSE << >>])
        ELSE Returned(layer)

RECURSIVE BuildFrom(_, _, _, _)
\* the model builder: the wrapper on each node in order; an exception of the
\* wrapper leaves the build
BuildFrom(graph, i, layers, c) ==
    IF i > Len(graph) THEN Returned(layers)
    ELSE LET r == wrap_if_applicable(graph[i], LayerOf(graph[i]), c)
         IN  IF r.state = "raised" THEN r
             ELSE BuildFrom(graph, i + 1, Append(layers, r.value), c)

build_model(graph, c) == [warnings |-> 0, result |-> BuildFrom(graph, 1, << >>, c)]

(***************************************************************************)
(* The node lookup of update_graph (Keras lines 297-304, PyTorch lines     *)
(* 240-244).  A name is the sequence of its '_'-separated parts; a graph   *)
(* is seen as the sequence of its nodes' names.                            *)
(***************************************************************************)
LayerNames == {<<"conv">>, <<"dense">>, <<"tf", "op", "layer", "conv">>}

NamedGraphs == UNION {[1..k -> LayerNames] : k \in 0..(MaxLayers + 1)}

ModelLayers ==
    [name : LayerNames, wrapped : BOOLEAN, tf_op_layer : BOOLEAN]

NamedModels == UNION {[1..k -> ModelLayers] : k \in 0..MaxLayers}

RECURSIVE FindFrom(_, _, _)
FindFrom(names, name, i) ==
    IF i > Len(names) THEN << >>
    ELSE (IF names[i] = name THEN <<i>> ELSE << >>) \o FindFrom(names, name, i + 1)

\* graph.find_node_by_name(name): the nodes of that name, in graph order
find_node_by_name(names, name) == FindFrom(names, name, 1)

\* '_'.join(name.split('_')[3:])
WithoutPrefix(name) == SubSeq(name, 4, Len(name))

\* the lookup for one wrapped layer: Keras looks again without the prefix
\* when nothing was found for a TensorFlowOpLayer
LookupNode(f, names, layer) ==
    LET node == find_node_by_name(names, layer.name)
    IN  IF f = "keras" /\ Len(node) = 0 /\ layer.tf_op_layer
        THEN find_node_by_name(names, WithoutPrefix(layer.name))
        ELSE node

\* if len(node) != 1: Logger.error(...)
LookupFails_when_missing(node) == Len(node) = 0
LookupFails(node) == Len(node) # 1

RECURSIVE UpdateFrom(_, _, _, _, _)
\* the loop of update_graph from layer i on; `writes` lists the pairs
\* <<node, layer>> written so far
UpdateFrom(f, names, layers, i, writes) ==
    IF i > Len(layers) THEN [warnings |-> 0, result |-> Returned(names),
                             writes |-> writes]
    ELSE IF ~layers[i].wrapped THEN UpdateFrom(f, names, layers, i + 1, writes)
    ELSE LET node == LookupNode(f, names, layers[i])
         IN  IF LookupFails(node) /\ LoggerErrorRaises
             THEN [warnings |-> 0, result |-> RaisedWith(layers[i].name),
                   writes |-> writes]
             ELSE UpdateFrom(f, names, layers, i + 1,
                             Append(writes, <<node[1], i>>))

update_graph_lookup(f, names, layers) == UpdateFrom(f, names, layers, 1, << >>)

(***************************************************************************)
(* Specification SpecHelpers: _generate_images_batch or                    *)
(* _get_model_output_replacement on every input within the bounds.         *)
(* Specification SpecWrappers: the student model's build or the node       *)
(* lookup of update_graph on every graph and model within the bounds.      *)
(***************************************************************************)
HelperOps2 == {"build_gptq_model", "update_graph"}

HelperInputs2(op) ==
    IF op = "build_gptq_model" THEN AnyGraphs
    ELSE {[fw |-> f, names |-> ns, layers |-> ls] :
             f \in {"keras", "pytorch"}, ns \in NamedGraphs, ls \in NamedModels}

HelperInit ==
    /\ helperOp \in HelperOps1
    /\ helperIn \in HelperInputs1(helperOp)
    /\ helperOut = HelperPending
    /\ OptIdle
    /\ JacIdle
    /\ RunIdle

WrapperInit ==
    /\ helperOp \in HelperOps2
    /\ helperIn \in HelperInputs2(helperOp)
    /\ helperOut = HelperPending
    /\ OptIdle
    /\ JacIdle
    /\ RunIdle

BuildGptqModel ==
    /\ helperOp = "build_gptq_model"
    /\ helperOut = HelperPending
    /\ \E r \in RoundingTypes :
          helperOut' = build_model(helperIn, [rounding_type |-> r])
    /\ UNCHANGED <<helperOp, helperIn, optVars, jacVars, runVars>>

UpdateGraphLookup ==
    /\ helperOp = "update_graph"
    /\ helperOut = HelperPending
    /\ helperOut' = update_graph_lookup(helperIn.fw, helperIn.names, helperIn.layers)
    /\ UNCHANGED <<helperOp, helperIn, optVars, jacVars, runVars>>

HelperNext ==
    \/ GenerateImagesBatch
    \/ GetModelOutputReplacement

SpecHelpers == HelperInit /\ [][HelperNext]_vars

WrapperNext ==
    \/ BuildGptqModel
    \/ UpdateGraphLookup

SpecWrappers == WrapperInit /\ [][WrapperNext]_vars

(***************************************************************************)
(* The helper methods' claims (C12, C13, C14)                              *)
(***************************************************************************)
HelperDone(op) == helperOp = op /\ helperOut # HelperPending

RECURSIVE SumSizes(_)
SumSizes(sizes) == IF sizes = << >> THEN 0 ELSE Head(sizes) + SumSizes(Tail(sizes))

\* every image the data source yields, in order
RECURSIVE AllImagesFrom(_, _)
AllImagesFrom(sizes, b) ==
    IF b > Len(sizes) THEN << >>
    ELSE BatchImages(sizes, b) \o AllImagesFrom(sizes, b + 1)

\* the data source ran out having yielded fewer samples than the quota
Shortage ==
    SumSizes(helperIn.sizes) < helperIn.num_samples_for_loss

\* C12: when the data source is exhausted short of num_samples_for_loss,
\* a source that yields no batch included, _generate_images_batch logs the
\* warning and returns all the samples that were yielded; it does not raise.
C12_ShortageWarnsAndReturns ==
    (HelperDone("_generate_images_batch") /\ Shortage) =>
        /\ helperOut.warnings = 1
        /\ helperOut.result = Returned(AllImagesFrom(helperIn.sizes, 1))

RECURSIVE NearestCompatible(_, _)
\* the nearest compatible node on the chain of single predecessors from n
\* (n itself included); 0 when an incompatible node of the chain does not
\* have exactly one direct predecessor
NearestCompatible(g, n) ==
    IF g.compatible[n] THEN n
    ELSE IF Len(g.prev[n]) # 1 THEN 0
    ELSE NearestCompatible(g, g.prev[n][1])

\* no output's walk back meets an incompatible node without exactly one
\* direct predecessor
EveryWalkIsAChain ==
    \A i \in DOMAIN helperIn.outputs :
        NearestCompatible(helperIn, helperIn.outputs[i]) # 0

\* C13: _get_model_output_replacement returns, for each graph output in
\* order, the output itself when it is compatible and otherwise its nearest
\* compatible ancestor along the chain of single predecessors, whatever the
\* length of the chain.
C13_ReplacementIsNearestCompatible ==
    (HelperDone("_get_model_output_replacement") /\ EveryWalkIsAChain) =>
        helperOut.result =
            Returned([i \in DOMAIN helperIn.outputs |->
                         NearestCompatible(helperIn, helperIn.outputs[i])])

\* C14: _get_model_output_replacement raises the assertion error, and returns
\* no list, whenever the walk back from an output visits an incompatible node
\* that does not have exactly one direct predecessor.
C14_AmbiguousPredecessorAsserts ==
    (HelperDone("_get_model_output_replacement") /\ ~EveryWalkIsAChain) =>
        helperOut.result = Raised

(***************************************************************************)
(* The dry run that counts the batches (C15)                               *)
(***************************************************************************)
SoftQuantizer == gptq_config.rounding_type = "SoftQuantizer"

C15_DryRunInvariant ==
    /\ calls.set_num_batches = 0 => num_batches = None
    /\ (SoftQuantizer /\ pc \notin {"call", "copied"}) =>
           /\ num_batches = batches_per_call
           /\ calls.set_num_batches = 1
           /\ calls.dry_run_data_function = 1
           /\ calls.dry_run_batches = batches_per_call
    /\ (SoftQuantizer /\ pc = "trained" /\ EntersLoop(fw)) =>
           calls.batches = gptq_config.n_epochs * num_batches
    /\ ~SoftQuantizer =>
           /\ num_batches = None
           /\ calls.set_num_batches = 0
           /\ calls.dry_run_data_function = 0
           /\ calls.dry_run_batches = 0

C15_DryRunStep ==
    (\/ calls'.set_num_batches # calls.set_num_batches
     \/ calls'.dry_run_data_function # calls.dry_run_data_function) =>
        /\ pc = "copied"
        /\ calls.set_num_batches = 0
        /\ append2output.fxp_model = Pending
        /\ append2output'.fxp_model = Pending
        /\ calls'.float_model = 0 /\ calls'.fxp_model = 0
        /\ calls'.data_function = 0

\* C15: with the SoftQuantizer rounding type and a data source that yields
\* the same number of batches on every call, the constructor's dry run hands
\* set_num_batches the number of batches of one training epoch; the dry run
\* happens once, before the student model is built, and runs no model.  With
\* any other rounding type the data source is not iterated for counting and
\* set_num_batches is never called.
C15_DryRunCountsEpochBatches ==
    [](C15_DryRunInvariant) /\ [][C15_DryRunStep]_vars

\* training of two epochs of two batches, counted as two by the dry run
C15_Witness ==
    /\ SoftQuantizer
    /\ pc = "trained"
    /\ EntersLoop(fw)
    /\ gptq_config.n_epochs = 2
    /\ num_batches = 2
    /\ calls.batches = 4

(***************************************************************************)
(* Ownership of the graphs (C16)                                           *)
(***************************************************************************)
Disjoint(s, t) == s \cap t = {}

CallerNodes == Range(ids.caller_float) \cup Range(ids.caller_quant)

C16_OwnershipInvariant ==
    /\ Disjoint(written, CallerNodes)
    /\ pc # "call" =>
           /\ Len(ids.graph_float) = Len(ids.caller_float)
           /\ Len(ids.graph_quant) = Len(ids.caller_quant)
           /\ NoDuplicates(ids.graph_float \o ids.graph_quant)
           /\ Disjoint(Range(ids.graph_float) \cup Range(ids.graph_quant),
                       CallerNodes)
    /\ Disjoint(Range(ids.returned), Range(ids.caller_quant))
    /\ pc \in {"updated", "done"} => Len(ids.returned) = Len(ids.caller_quant)

C16_OwnershipStep ==
    /\ ids'.caller_float = ids.caller_float
    /\ ids'.caller_quant = ids.caller_quant
    /\ written' # written => written' \subseteq Range(ids.graph_quant)

\* C16: no operation of the trainer modifies the caller's graph_float or
\* graph_quant: the trainer works on two deep copies that share no node with
\* each other or with the caller's graphs, and the graph update_graph returns
\* shares no node with the caller's graph_quant.
C16_CallerGraphsUntouched ==
    [](C16_OwnershipInvariant) /\ [][C16_OwnershipStep]_vars

\* a finished run on a graph of two nodes, both written by update_graph
C16_Witness ==
    /\ pc = "done"
    /\ Len(ids.caller_quant) = 2
    /\ Cardinality(written) = 2
    /\ Len(ids.returned) = 2

(***************************************************************************)
(* The compare points of the two models (C17)                              *)
(***************************************************************************)
C17_ComparePointsInvariant ==
    /\ append2output.float_model \in {Pending, Returned(compare_points)}
    /\ append2output.fxp_model \in {Pending, Returned(compare_points)}
    /\ pc # "call" => append2output.float_model = Returned(compare_points)
    /\ pc \notin BeforeConstruct =>
           append2output.fxp_model = append2output.float_model

C17_ComparePointsStep ==
    /\ compare_points' = compare_points
    /\ append2output.float_model # Pending =>
           append2output'.float_model = append2output.float_model
    /\ append2output.fxp_model # Pending =>
           append2output'.fxp_model = append2output.fxp_model
    /\ append2output'.fxp_model # Pending => append2output.float_model # Pending

\* C17: the teacher model and the student model are built with the same
\* ordered list of compare points, selected once; the list does not change
\* between the two builds or during training.
C17_SameComparePoints ==
    [](C17_ComparePointsInvariant) /\ [][C17_ComparePointsStep]_vars

\* both models built on two compare points, and training has run
C17_Witness ==
    /\ pc = "trained"
    /\ calls.batches > 0
    /\ Len(compare_points) = 2
    /\ append2output.float_model = Returned(compare_points)
    /\ append2output.fxp_model = Returned(compare_points)

(***************************************************************************)
(* The threshold update_graph writes (C19)                                 *)
(***************************************************************************)
ThresholdOf(node) == node.final_weights_quantization_cfg.threshold

\* the node's threshold holds the values of the layer's threshold parameter,
\* in the shape the node was configured with
ThresholdWritten(node, layer) ==
    /\ ThresholdOf(node).data = layer.quantizer_parameters.ptq_threshold.data
    /\ ThresholdOf(node).shape = ThresholdOf(ConfiguredNode(node)).shape

C19_ThresholdInvariant ==
    pc \in {"updated", "done"} =>
        \A i \in DOMAIN graph_quant : ThresholdWritten(graph_quant[i], fxp_model[i])

C19_ThresholdStep ==
    calls'.update_graph # calls.update_graph =>
        \A i \in DOMAIN graph_quant :
            LET parameter == fxp_model[i].quantizer_parameters.ptq_threshold
            IN  /\ ThresholdOf(graph_quant'[i]).data = parameter.data
                /\ ThresholdOf(graph_quant'[i]).shape = ThresholdOf(graph_quant[i]).shape
                /\ parameter.shape =
                       IF graph_quant[i].final_weights_quantization_cfg.weights_per_channel_threshold
                       THEN <<Len(parameter.data)>> ELSE << >>

\* C19: after update_graph the threshold stored in a node's final weights
\* quantization configuration equals, in value and in shape, the threshold
\* parameter of the node's quantizer as it was just before the update: a
\* scalar for a per-tensor threshold, and for a per-channel threshold the
\* flattened parameter put back into the configured shape.
C19_ThresholdWrittenBack ==
    [](C19_ThresholdInvariant) /\ [][C19_ThresholdStep]_vars

\* a per-tensor node and a per-channel node, both with trained thresholds,
\* after update_graph
C19_Witness ==
    /\ pc = "updated"
    /\ Len(graph_quant) = 2
    /\ graph_quant[1].type = "Dense" /\ graph_quant[2].type = "Conv2D"
    /\ \A i \in 1..2 :
           ThresholdOf(graph_quant[i]).data # ThresholdOf(ConfiguredNode(graph_quant[i])).data

(***************************************************************************)
(* The node lookup of update_graph (C18) and the wrapping decision (C20)   *)
(***************************************************************************)
\* the wrapped layers whose lookup does not yield exactly one node
FailedLookups ==
    {i \in DOMAIN helperIn.layers :
        /\ helperIn.layers[i].wrapped
        /\ Len(LookupNode(helperIn.fw, helperIn.names, helperIn.layers[i])) # 1}

Least(S) == CHOOSE i \in S : \A j \in S : i <= j

WrittenLayers == {helperOut.writes[k][2] : k \in DOMAIN helperOut.writes}

\* C18: in update_graph of both trainers the lookup of a wrapped layer's node
\* by name must yield exactly one node; at the first wrapped layer for which
\* it yields none or several, update_graph stops with an error naming that
\* layer, having written the wrapped layers before it and nothing for that
\* layer or any later one.
C18_LookupMustYieldOneNode ==
    HelperDone("update_graph") =>
        IF FailedLookups # {}
        THEN /\ helperOut.result =
                    RaisedWith(helperIn.layers[Least(FailedLookups)].name)
             /\ WrittenLayers =
                    {i \in DOMAIN helperIn.layers :
                        helperIn.layers[i].wrapped /\ i < Least(FailedLookups)}
        ELSE /\ helperOut.result.state = "returned"
             /\ WrittenLayers =
                    {i \in DOMAIN helperIn.layers : helperIn.layers[i].wrapped}
             /\ \A k \in DOMAIN helperOut.writes :
                    helperIn.names[helperOut.writes[k][1]] \in
                        {helperIn.layers[helperOut.writes[k][2]].name,
                         WithoutPrefix(helperIn.layers[helperOut.writes[k][2]].name)}

\* the first layer was written, the second layer's name is held by two nodes
C18_Witness ==
    /\ HelperDone("update_graph")
    /\ Len(helperIn.layers) = 2
    /\ Len(helperOut.writes) = 1
    /\ Len(LookupNode(helperIn.fw, helperIn.names, helperIn.layers[2])) = 2
    /\ helperOut.result = RaisedWith(helperIn.layers[2].name)

\* the nodes with weights quantization enabled on a non-kernel operator
UnsupportedNodes ==
    {i \in DOMAIN helperIn :
        helperIn[i].weights_quantization_enabled /\ ~is_kernel_op(helperIn[i].type)}

\* C20: when the student model is built, a layer is wrapped exactly when its
\* node has weights quantization enabled; a node with weights quantization
\* enabled whose operator type is not a kernel operator stops the build with
\* an error naming the node and its type; a node without weights quantization
\* yields its layer unwrapped.
C20_WrappedIffQuantized ==
    HelperDone("build_gptq_model") =>
        IF UnsupportedNodes # {}
        THEN LET node == helperIn[Least(UnsupportedNodes)]
             IN  helperOut.result = RaisedWith(<<node.name, node.type>>)
        ELSE /\ helperOut.result.state = "returned"
             /\ Len(helperOut.result.value) = Len(helperIn)
             /\ \A i \in DOMAIN helperIn :
                    LET layer == helperOut.result.value[i]
                    IN  /\ layer.wrapped <=> helperIn[i].weights_quantization_enabled
                        /\ layer.layer = helperIn[i].name
                        /\ ~helperIn[i].weights_quantization_enabled =>
                               layer = LayerOf(helperIn[i])

\* a model of one wrapped layer and one layer left as it is
C20_Witness ==
    /\ HelperDone("build_gptq_model")
    /\ helperOut.result.state = "returned"
    /\ Len(helperIn) = 2
    /\ helperOut.result.value[1].wrapped
    /\ ~helperOut.result.value[2].wrapped

(***************************************************************************)
(* pertubation_symmetric_quantizer on fractional values.  An input x and   *)
(* an auxiliary value a are the fractions xn / Scale and an / Scale; the   *)
(* threshold t is a positive integer.                                      *)
(***************************************************************************)
\* denominator of the inputs and the auxiliary values
Scale == 4
\* largest threshold
MaxThreshold == 4
\* largest bit width (the smallest is 2)
MaxBits == 3
\* largest |x| and largest |a|, in units
MaxAbsInput == 5
MaxAbsAux == 2
\* largest max_lsbs_change a max_lsbs_change_map holds
MaxLsbs == 2

\* lines 58-66 step by step, on x = xn / scale and a = an / scale: the
\* threshold used, round(x / delta), the clipped auxiliary value over delta
\* (as clipped / (scale * max_tensor)), the code before and after the range
\* clip, and the value returned (as num / den)
QuantSteps(xn, an, scale, t, num_bits, signed, power_of_two, max_lsbs_change) ==
    LET max_tensor == IF power_of_two THEN power_of_two_max(t) ELSE t
        P == Pow2(num_bits - (IF signed THEN 1 ELSE 0))
        input_tensor_int == RoundDiv(xn * P, scale * max_tensor)
        clipped == Clip(an * P, -(max_lsbs_change * max_tensor * scale),
                        max_lsbs_change * max_tensor * scale)
        tensor_q == RoundDiv(input_tensor_int * scale * max_tensor + clipped,
                             scale * max_tensor)
        code == Clip(tensor_q, min_int(num_bits, signed), max_int(num_bits, signed))
    IN  [max_tensor |-> max_tensor,
         input_tensor_int |-> input_tensor_int,
         clipped |-> clipped,
         tensor_q |-> tensor_q,
         code |-> code,
         num |-> max_tensor * code,
         den |-> P]

\* __call__, lines 163-179: the per-channel branch passes
\* self.max_lsbs_change, the per-tensor branch leaves the default of line 41
PassedMaxLsbsChange(q) == IF q.per_channel THEN q.max_lsbs_change ELSE 1

\* __call__ on one element of the kernel
STE_call_element(q, xn, an, scale, t) ==
    QuantSteps(xn, an, scale, t, q.num_bits, TRUE, q.power_of_two,
               PassedMaxLsbsChange(q))

QuantInputs(op) ==
    LET values == [xn : (-(MaxAbsInput * Scale))..(MaxAbsInput * Scale),
                   an : (-(MaxAbsAux * Scale))..(MaxAbsAux * Scale),
                   t : 1..MaxThreshold,
                   num_bits : 2..MaxBits,
                   power_of_two : BOOLEAN,
                   max_lsbs_change : 0..MaxLsbs]
    IN  IF op = "pertubation_symmetric_quantizer"
        THEN {v @@ [per_channel |-> TRUE] :
                 v \in {w \in values : w.max_lsbs_change >= 1}}
        ELSE {v @@ [per_channel |-> p] : v \in values, p \in BOOLEAN}

QuantOps == {"pertubation_symmetric_quantizer", "STEWeightGPTQQuantizer.__call__"}

QuantInit ==
    /\ helperOp \in QuantOps
    /\ helperIn \in QuantInputs(helperOp)
    /\ helperOut = HelperPending
    /\ OptIdle
    /\ JacIdle
    /\ RunIdle

\* the signed quantizer called with max_lsbs_change given
CallQuantizer ==
    /\ helperOp = "pertubation_symmetric_quantizer"
    /\ helperOut = HelperPending
    /\ helperOut' = [warnings |-> 0,
                     result |-> Returned(QuantSteps(helperIn.xn, helperIn.an, Scale,
                                                    helperIn.t, helperIn.num_bits, TRUE,
                                                    helperIn.power_of_two,
                                                    helperIn.max_lsbs_change))]
    /\ UNCHANGED <<helperOp, helperIn, optVars, jacVars, runVars>>

\* the quantizer object of a layer called on an element of its kernel
CallSTE ==
    /\ helperOp = "STEWeightGPTQQuantizer.__call__"
    /\ helperOut = HelperPending
    /\ helperOut' = [warnings |-> 0,
                     result |-> Returned(STE_call_element(helperIn, helperIn.xn,
                                                          helperIn.an, Scale,
                                                          helperIn.t))]
    /\ UNCHANGED <<helperOp, helperIn, optVars, jacVars, runVars>>

QuantNext ==
    \/ CallQuantizer
    \/ CallSTE

SpecQuant == QuantInit /\ [][QuantNext]_vars

(***************************************************************************)
(* The range and the grid of the quantizer's output (C21)                  *)
(***************************************************************************)
QuantizerDone == HelperDone("pertubation_symmetric_quantizer")
Quantized == helperOut.result.value

Abs(n) == IF n < 0 THEN -n ELSE n

\* the fraction num / den is k * step / 2^(b-1) for an integer code k of b
\* bits, and lies within [-step, step]
OnGrid(num, den, step, b) ==
    /\ \E k \in (-Pow2(b - 1))..(Pow2(b - 1) - 1) :
           num * Pow2(b - 1) = k * step * den
    /\ Abs(num) <= step * den

\* C21 as stated: for every bit width, threshold, input and auxiliary value,
\* power-of-two snapping on or off, the output of the signed quantizer lies
\* within [-t, t] and is an integer multiple of t / 2^(b-1) with a code of b
\* bits.
C21_AsStated ==
    QuantizerDone =>
        OnGrid(Quantized.num, Quantized.den, helperIn.t, helperIn.num_bits)

\* the threshold the quantizer works with
UsedThreshold ==
    IF helperIn.power_of_two THEN power_of_two_max(helperIn.t) ELSE helperIn.t

\* C21: for every bit width, threshold, input and auxiliary value the output
\* of the signed quantizer lies within [-T, T] and is an integer multiple of
\* T / 2^(b-1) with a code of b bits, where T is the threshold t when snapping
\* is off and the power of two t is snapped to when snapping is on.
C21_OutputOnUsedGrid ==
    QuantizerDone =>
        OnGrid(Quantized.num, Quantized.den, UsedThreshold, helperIn.num_bits)

\* snapping moves the threshold 3 to another value and the input is beyond
\* the range, so the range clip acts
C21_Witness ==
    /\ QuantizerDone
    /\ helperIn.power_of_two
    /\ helperIn.t = 3
    /\ helperIn.xn < -(helperIn.t * Scale)
    /\ Quantized.code = min_int(helperIn.num_bits, TRUE)
    /\ Quantized.tensor_q < Quantized.code

(***************************************************************************)
(* The log function (C22)                                                  *)
(***************************************************************************)
\* the log function is called once per step, after the step's optimizer
\* updates and before its loss is appended; never when none is configured
C22_OnceAfterUpdates ==
    IF gptq_config.log_function
    THEN /\ pc = "log" =>
                /\ calls.log_function = Len(loss_list)
                /\ calls.optimizer_steps = calls.batches * Len(Groups)
         /\ pc = "append" => calls.log_function = Len(loss_list) + 1
         /\ pc \in {"step", "apply", "batch", "epoch", "trained"} =>
                calls.log_function = Len(loss_list)
    ELSE calls.log_function = 0 /\ pc # "log"

\* C22: in both trainers a configured log_function is called once per
\* training step, after the optimizer updates of the step and before the loss
\* is appended, with the four arguments loss, gradients of the first group,
\* parameters of the first group and compare points; without a log_function
\* nothing is called.
C22_LogFunctionGetsFourArguments ==
    /\ C22_OnceAfterUpdates
    /\ calls.log_function > 0 =>
           calls.log_arguments =
               <<"loss", "grads[0]", "optimizer_with_param[0][-1]", "compare_points">>

(***************************************************************************)
(* The order within a training step (C23)                                  *)
(***************************************************************************)
\* the operations of the events es, in order
Operations(es) == [i \in DOMAIN es |-> es[i][1]]

\* the first n optimizer groups updated in list order
UpdatesUpTo(n) == [i \in 1..n |-> <<"update", i>>]

StepOrderUpTo(n) ==
    /\ Operations(SubSeq(calls.step_events, 1, 5)) =
           <<"scale", "float_model", "fxp_model", "loss", "gradients">>
    /\ SubSeq(calls.step_events, 6, Len(calls.step_events)) = UpdatesUpTo(n)
    \* the teacher and the student receive the same scaled input
    /\ calls.step_events[2][2] = calls.step_events[3][2]
    /\ calls.step_events[2][2] = "input_data"

C23_StepInvariant ==
    /\ pc = "step" => calls.step_events = << >>
    /\ pc = "apply" => StepOrderUpTo(group_index - 1)
    /\ pc \in {"log", "append"} => StepOrderUpTo(Len(Groups))

C23_StepStep ==
    calls'.batches # calls.batches =>
        /\ pc = "batch"
        /\ calls.optimizer_steps = calls.batches * Len(Groups)
        /\ calls.gradients = calls.batches

\* C23: training steps never overlap: every batch is scaled, run through the
\* teacher, run through the student with the loss, differentiated, and then
\* applied by one update per optimizer group in list order; the updates of a
\* batch are all done before the data source is asked for the next batch, and
\* the teacher and the student of a step receive the same scaled input.
C23_StepsInOrder == [](C23_StepInvariant) /\ [][C23_StepStep]_vars

\* the second batch of a run with three optimizer groups, all updates done
C23_Witness ==
    /\ pc = "append"
    /\ calls.batches = 2
    /\ Len(Groups) = 3
    /\ Len(calls.step_events) = 8

(***************************************************************************)
(* The zero replacement of the log_norm branch (C24)                       *)
(***************************************************************************)
\* lines 150-151: np.where(mean != 0, mean, np.partition(mean, 1)[1]), the
\* vector handed to np.log10; the vector has at least two elements
ZeroReplaced(mean_jacobian_weights) ==
    LET second == Partition1(mean_jacobian_weights)
    IN  [p \in DOMAIN mean_jacobian_weights |->
            IF mean_jacobian_weights[p].num # 0
            THEN mean_jacobian_weights[p] ELSE second]

\* the log_norm branch was reached with the scores of at least one image
LogNormCallMade ==
    /\ jacOut.state # "pending"
    /\ jacCfg.use_jac_based_weights
    /\ jacCfg.log_norm
    /\ jacCalls.model_grad >= 1

\* the score vectors model_grad returned
UsedScores == [k \in 1..jacCalls.model_grad |-> jacScores[k]]

\* C24: in the log_norm branch, for every vector of averaged scores over at
\* least two compare points, vectors with two or more exact zeros included,
\* no entry handed to log10 after the zero replacement is zero.
C24_NoZeroReachesLog ==
    (LogNormCallMade /\ Len(jacPoints) >= 2) =>
        LET passed == ZeroReplaced(MeanScores(jacPoints, UsedScores))
        IN  /\ \A p \in DOMAIN passed : passed[p].num # 0
            /\ jacOut.state = "returned"
            /\ \A p \in DOMAIN jacOut.value : jacOut.value[p].kind = "log"

(***************************************************************************)
(* The samples _generate_images_batch returns (C25)                        *)
(***************************************************************************)
Smaller(a, b) == IF a < b THEN a ELSE b

\* C25: for every sequence of batches and every num_samples_for_loss >= 1, a
\* call of _generate_images_batch that returns gives exactly
\* min(num_samples_for_loss, samples the source yields) samples, the first
\* ones of the source in source order; the running sample count never exceeds
\* num_samples_for_loss, the truncation assertion never fails, and the
\* shortage warning is logged exactly when the source yields fewer samples
\* than num_samples_for_loss.
C25_FirstSamplesInOrder ==
    (HelperDone("_generate_images_batch") /\ helperIn.num_samples_for_loss >= 1) =>
        LET total == SumSizes(helperIn.sizes)
            quota == helperIn.num_samples_for_loss
        IN  /\ ~helperOut.assertion_failed
            /\ \A i \in DOMAIN helperOut.counts : helperOut.counts[i] <= quota
            /\ helperOut.warnings = (IF total < quota THEN 1 ELSE 0)
            /\ helperOut.result.state = "returned" =>
                   helperOut.result.value =
                       SubSeq(AllImagesFrom(helperIn.sizes, 1), 1, Smaller(quota, total))

\* the quota is met in the middle of the second batch, which is truncated
C25_Witness ==
    /\ HelperDone("_generate_images_batch")
    /\ helperIn.num_samples_for_loss = 3
    /\ Len(helperIn.sizes) >= 2
    /\ helperIn.sizes[1] = 2 /\ helperIn.sizes[2] = 2
    /\ helperOut.result.state = "returned"
    /\ Len(helperOut.result.value) = 3
    /\ helperOut.warnings = 0

(***************************************************************************)
(* Specification SpecImages: _generate_images_batch alone, on every data   *)
(* source and quota within the bounds.                                     *)
(***************************************************************************)
ImagesInit ==
    /\ helperOp = "_generate_images_batch"
    /\ helperIn \in HelperInputs1(helperOp)
    /\ helperOut = HelperPending
    /\ OptIdle
    /\ JacIdle
    /\ RunIdle

ImagesNext == GenerateImagesBatch

SpecImages == ImagesInit /\ [][ImagesNext]_vars

(***************************************************************************)
(* The bound on the auxiliary perturbation (C26)                           *)
(***************************************************************************)
\* C26: per channel and per tensor alike, STEWeightGPTQQuantizer clips the
\* auxiliary value to +/- max_lsbs_change least-significant bits, with
\* max_lsbs_change the value of max_lsbs_change_map for the layer's bit
\* width; so the code before the range clip is within max_lsbs_change of
\* round(x / delta), whatever the auxiliary value.
C26_PerturbationWithinMapValue ==
    HelperDone("STEWeightGPTQQuantizer.__call__") =>
        LET steps == helperOut.result.value
            lsbs == helperIn.max_lsbs_change
            P == Pow2(helperIn.num_bits - 1)
        IN  /\ steps.clipped =
                   Clip(helperIn.an * P, -(lsbs * steps.max_tensor * Scale),
                        lsbs * steps.max_tensor * Scale)
            /\ Abs(steps.tensor_q - steps.input_tensor_int) <= lsbs

(***************************************************************************)
(* The quantizer with no perturbation (C27)                                *)
(***************************************************************************)
\* the integer nearest to n / d (d > 0), the even one of two equally near
NearestInteger(n, d) ==
    CHOOSE k \in ((n \div d) - 1)..((n \div d) + 1) :
        /\ 2 * Abs(n - k * d) <= d
        /\ 2 * Abs(n - k * d) = d => k % 2 = 0

\* delta * clip(round(x / delta), min_int, max_int) on x = xn / Scale with
\* delta = step / 2^(b-1), as the numerator over 2^(b-1)
FixedPoint(xn, step, b) ==
    step * Clip(NearestInteger(xn * Pow2(b - 1), Scale * step),
                -Pow2(b - 1), Pow2(b - 1) - 1)

\* x is an integer multiple of delta within the representable range
Representable(xn, step, b) ==
    \E k \in (-Pow2(b - 1))..(Pow2(b - 1) - 1) : xn * Pow2(b - 1) = k * step * Scale

\* C27: with the auxiliary value at zero, its initial value, the output of
\* pertubation_symmetric_quantizer is plain fixed-point quantization
\* delta * clip(round(x / delta), min_int, max_int) of every input x; an input
\* that is a multiple of delta within the representable range comes back
\* unchanged.
C27_ZeroAuxIsFixedPoint ==
    (QuantizerDone /\ helperIn.an = 0) =>
        /\ Quantized.den = Pow2(helperIn.num_bits - 1)
        /\ Quantized.num = FixedPoint(helperIn.xn, UsedThreshold, helperIn.num_bits)
        /\ Representable(helperIn.xn, UsedThreshold, helperIn.num_bits) =>
               Quantized.num * Scale = helperIn.xn * Quantized.den

\* the most negative representable value, under a threshold that is not a
\* power of two, comes back unchanged
C27_Witness ==
    /\ QuantizerDone
    /\ helperIn.an = 0
    /\ ~helperIn.power_of_two
    /\ helperIn.t = 3
    /\ helperIn.xn = -(3 * Scale)
    /\ Quantized.num * Scale = helperIn.xn * Quantized.den
    /\ Quantized.code = -Pow2(helperIn.num_bits - 1)

(***************************************************************************)
(* C28, C29: the missing-optimizer_rest check of get_optimizer_with_param  *)
(***************************************************************************)
\* every enabled parameter set of configuration c has its dedicated optimizer
EveryEnabledSetHasOptimizer(c) ==
    /\ c.train_bias => c.optimizer_bias # None
    /\ c.quantization_parameters_learning => c.optimizer_quantization_parameter # None

\* C28: the missing-optimizer_rest error is reported only if some enabled
\* parameter set (bias, quantization parameters) lacks its dedicated
\* optimizer; when every enabled set has its dedicated optimizer, a missing
\* optimizer_rest is not an error and the optimizer groups are returned.
C28_ErrorOnlyWhenRestIsNeeded ==
    /\ optOut.state = "raised" =>
           (optCfg.optimizer_rest = None /\ ~EveryEnabledSetHasOptimizer(optCfg))
    /\ (optOut.state # "pending" /\ EveryEnabledSetHasOptimizer(optCfg)) =>
           optOut.state = "returned"

\* C29: whenever get_optimizer_with_param returns without error, every
\* returned group is bound to a non-null optimizer (so that no training step
\* is taken on an absent optimizer), also when train_bias is enabled with
\* optimizer_bias configured, quantization_parameters_learning is disabled
\* and optimizer_rest is not configured.
C29_EveryGroupHasOptimizer ==
    optOut.state = "returned" =>
        \A i \in DOMAIN optOut.value : optOut.value[i].optimizer # None

(***************************************************************************)
(* C30: termination of _get_model_output_replacement                       *)
(***************************************************************************)
\* C30: _get_model_output_replacement terminates, by returning the list or
\* by failing its assertion, on every finite acyclic graph and every
\* compatibility predicate, also when an incompatible output's only
\* predecessor is itself incompatible.
C30_ReplacementTerminates ==
    HelperDone("_get_model_output_replacement") =>
        helperOut.result.state \in {"returned", "raised"}

====
